---------------------------- MODULE Spec2Model ----------------------------
(***************************************************************************)
(* A model of the voice assistant's model-orchestration layer:             *)
(*   ModelManager            (src/unnamed/part_000)                        *)
(*   MediaPipeLLM            (src/mediapipe-llm.js)                        *)
(*   PollinationsModelManager (src/audio-processor.js)                     *)
(*                                                                         *)
(* Asynchronous functions are modelled as stacks of frames.  A frame that  *)
(* awaits an external event (the Transformers.js pipeline() call, a        *)
(* MediaPipe task, a timer) waits for the action that settles the event;   *)
(* the code that runs between two awaits runs in microtasks, which no      *)
(* event can interrupt, so those continuation steps have priority over     *)
(* every event (guard Quiescent).                                          *)
(***************************************************************************)
EXTENDS Integers, Sequences, FiniteSets, TLC

----------------------------------------------------------------------------
(* Identifiers and the string functions the code applies to them.          *)

TinyLlama   == "Xenova/TinyLlama-1.1B-Chat-v1.0"
Gemma3      == "gemma-3-1b-it"
Gemma7      == "gemma-7b-it"
XenovaGemma == "Xenova/gemma-3-1b"
SmolLM17    == "HuggingFaceTB/SmolLM2-1.7B-Instruct"
SmolLM135   == "HuggingFaceTB/SmolLM2-135M-Instruct"
SmolLM135Q4 == "HuggingFaceTB/SmolLM2-135M-Instruct/q4f16"
WhisperTiny == "Xenova/whisper-tiny.en"

ModelIds == {TinyLlama, Gemma3, Gemma7, XenovaGemma, SmolLM17, SmolLM135, SmolLM135Q4,
             WhisperTiny}

\* The characters of an identifier (TLA+ strings cannot be taken apart).
Chars(s) ==
    CASE s = "Xenova/TinyLlama-1.1B-Chat-v1.0" ->
        <<"X","e","n","o","v","a","/","T","i","n","y","L","l","a","m","a","-","1",".","1","B","-","C","h","a","t","-","v","1",".","0">>
      [] s = "gemma-3-1b-it" ->
        <<"g","e","m","m","a","-","3","-","1","b","-","i","t">>
      [] s = "gemma-7b-it" ->
        <<"g","e","m","m","a","-","7","b","-","i","t">>
      [] s = "Xenova/gemma-3-1b" ->
        <<"X","e","n","o","v","a","/","g","e","m","m","a","-","3","-","1","b">>
      [] s = "HuggingFaceTB/SmolLM2-1.7B-Instruct" ->
        <<"H","u","g","g","i","n","g","F","a","c","e","T","B","/","S","m","o","l","L","M","2","-","1",".","7","B","-","I","n","s","t","r","u","c","t">>
      [] s = "HuggingFaceTB/SmolLM2-135M-Instruct" ->
        <<"H","u","g","g","i","n","g","F","a","c","e","T","B","/","S","m","o","l","L","M","2","-","1","3","5","M","-","I","n","s","t","r","u","c","t">>
      [] s = "HuggingFaceTB/SmolLM2-135M-Instruct/q4f16" ->
        <<"H","u","g","g","i","n","g","F","a","c","e","T","B","/","S","m","o","l","L","M","2","-","1","3","5","M","-","I","n","s","t","r","u","c","t","/","q","4","f","1","6">>
      [] s = "Xenova/whisper-tiny.en" ->
        <<"X","e","n","o","v","a","/","w","h","i","s","p","e","r","-","t","i","n","y",".","e","n">>
      [] s = "Xenova/Qwen1.5-0.5B-Chat" ->
        <<"X","e","n","o","v","a","/","Q","w","e","n","1",".","5","-","0",".","5","B","-","C","h","a","t">>
      [] s = "Xenova/phi-1_5_dev" ->
        <<"X","e","n","o","v","a","/","p","h","i","-","1","_","5","_","d","e","v">>
      [] s = "Xenova/llama2.c-stories15M" ->
        <<"X","e","n","o","v","a","/","l","l","a","m","a","2",".","c","-","s","t","o","r","i","e","s","1","5","M">>
      [] s = "Xenova/distilgpt2" ->
        <<"X","e","n","o","v","a","/","d","i","s","t","i","l","g","p","t","2">>

\* String.prototype.toLowerCase on one character.
LowerChar(c) ==
    CASE c = "A" -> "a" [] c = "B" -> "b" [] c = "C" -> "c" [] c = "D" -> "d"
      [] c = "E" -> "e" [] c = "F" -> "f" [] c = "G" -> "g" [] c = "H" -> "h"
      [] c = "I" -> "i" [] c = "J" -> "j" [] c = "K" -> "k" [] c = "L" -> "l"
      [] c = "M" -> "m" [] c = "N" -> "n" [] c = "O" -> "o" [] c = "P" -> "p"
      [] c = "Q" -> "q" [] c = "R" -> "r" [] c = "S" -> "s" [] c = "T" -> "t"
      [] c = "U" -> "u" [] c = "V" -> "v" [] c = "W" -> "w" [] c = "X" -> "x"
      [] c = "Y" -> "y" [] c = "Z" -> "z" [] OTHER -> c

toLowerCase(cs) == [i \in 1..Len(cs) |-> LowerChar(cs[i])]

\* String.prototype.includes: needle occurs as a contiguous substring.
includes(cs, needle) ==
    \E hay \in {cs} :
        \E i \in 1..(Len(hay) - Len(needle) + 1) :
            SubSeq(hay, i, i + Len(needle) - 1) = needle

\* modelPath.toLowerCase().includes('smollm2')
IsSmolLM2(id) == includes(toLowerCase(Chars(id)), <<"s","m","o","l","l","m","2">>)

\* config.modelName.includes('/q4f16'), case-sensitive
HasQ4F16Suffix(id) == includes(Chars(id), <<"/","q","4","f","1","6">>)

\* The identifier with the given characters.
FromChars(cs) == CHOOSE id \in ModelIds : Chars(id) = cs

\* config.modelName.replace('/q4f16', ''): the first occurrence is cut out.
RemoveQ4F16(id) ==
    LET cs     == Chars(id)
        needle == <<"/","q","4","f","1","6">>
        at     == {i \in 1..(Len(cs) - Len(needle) + 1) :
                       SubSeq(cs, i, i + Len(needle) - 1) = needle}
    IN  IF at = {} THEN id
        ELSE LET i == CHOOSE j \in at : \A k \in at : j <= k
             IN  FromChars(SubSeq(cs, 1, i - 1) \o SubSeq(cs, i + Len(needle), Len(cs)))

\* Variant: the identifier is not lower-cased before the two tests.
shouldUseMediaPipeCharsMutCaseSensitive(cs, flag) ==
    \/ /\ includes(cs, <<"g","e","m","m","a">>)
       /\ ~includes(cs, <<"x","e","n","o","v","a">>)
    \/ flag

\* shouldUseMediaPipe on the characters of the identifier, with
\* this.useMediaPipe passed in.
shouldUseMediaPipeChars(cs, flag) ==
    LET modelLower == toLowerCase(cs) IN
    \/ /\ includes(modelLower, <<"g","e","m","m","a">>)
       /\ ~includes(modelLower, <<"x","e","n","o","v","a">>)
    \/ flag

\* shouldUseMediaPipe(modelName), with this.useMediaPipe passed in.
shouldUseMediaPipe(modelName, flag) == shouldUseMediaPipeChars(Chars(modelName), flag)

NoFallback == <<>>

\* getFallbackONNXModel(mediaPipeModelName), as the list the cascade walks
\* (a single string is wrapped into a one-element list at line 313; null is
\* the empty tuple NoFallback).
getFallbackONNXModel(mediaPipeModelName) ==
    LET modelLower == toLowerCase(Chars(mediaPipeModelName)) IN
    IF \/ includes(modelLower, <<"g","e","m","m","a","-","3","-","1","b">>)
       \/ includes(modelLower, <<"g","e","m","m","a","3","-","1","b">>)
    THEN <<SmolLM17, TinyLlama, SmolLM135>>
    ELSE IF \/ includes(modelLower, <<"g","e","m","m","a","-","2","b">>)
            \/ includes(modelLower, <<"g","e","m","m","a","2","b">>)
    THEN <<SmolLM17>>
    ELSE IF \/ includes(modelLower, <<"g","e","m","m","a","-","7","b">>)
            \/ includes(modelLower, <<"g","e","m","m","a","7","b">>)
    THEN <<TinyLlama>>
    ELSE IF includes(modelLower, <<"g","e","m","m","a">>)
    THEN <<SmolLM17, TinyLlama, SmolLM135>>
    ELSE NoFallback

\* const emergencyFallback = 'HuggingFaceTB/SmolLM2-135M-Instruct'
emergencyFallback == SmolLM135

\* mapToMediaPipeModel on the characters of the identifier (lines 398-416).
mapToMediaPipeModelChars(cs) ==
    LET modelLower == toLowerCase(cs) IN
    IF \/ includes(modelLower, <<"g","e","m","m","a","-","3","-","1","b">>)
       \/ includes(modelLower, <<"g","e","m","m","a","3","-","1","b">>)
       \/ includes(modelLower, <<"g","e","m","m","a","-","1","b">>)
    THEN "gemma-3-1b-it-q4"
    ELSE IF \/ includes(modelLower, <<"g","e","m","m","a","-","2","b">>)
            \/ includes(modelLower, <<"g","e","m","m","a","2","b">>)
    THEN "gemma-3-1b-it-q4"
    ELSE IF \/ includes(modelLower, <<"g","e","m","m","a","-","7","b">>)
            \/ includes(modelLower, <<"g","e","m","m","a","7","b">>)
    THEN "gemma-7b-it"
    ELSE "gemma-3-1b-it-q4"

\* mapToMediaPipeModel(modelName)
mapToMediaPipeModel(modelName) == mapToMediaPipeModelChars(Chars(modelName))

\* MediaPipeLLM.supportedModels (keys)
supportedModels == {"gemma-3-1b-it-q4", "gemma-3-1b-it", "gemma-7b-it"}


----------------------------------------------------------------------------
(* Timer durations (milliseconds).  Two timers started in the same turn    *)
(* fire in the order of their durations; the guards below use that.        *)

ManagerInitTimeoutMs   == 2000
MediaPipeInitTimeoutMs == 5000
ModelLoadTimeoutMs     == 15000
DownloadStepMs         == 200
DownloadSteps          == 4

\* Number of client operations (loadModel calls, inference requests) a
\* behaviour makes.
MaxCalls == 2

\* Number of words of a generated response.
MaxWords == 2

Keys == {"whisper", "textgen"}
\* 'phi3' is the key benchmarkModel still uses (line 778); it has no config.
CallKeys == Keys \cup {"phi3"}
\* The keys PollinationsModelManager.loadModel registers a handle for.
PollinationsKeys == {"whisper", "textgen", "tts"}

VARIABLES
    app,               \* which manager class the application instantiated
    window,            \* the host environment the constructor and probes read
    supportedDevices,  \* this.supportedDevices
    supportedBackends, \* this.supportedBackends
    currentBackend,    \* this.currentBackend
    isInitialized,     \* this.isInitialized (ModelManager)
    initPc,            \* position of ModelManager.initialize()
    config,            \* this.config
    models,            \* this.models (the handle registry)
    mediaPipeLLM,      \* this.mediaPipeLLM !== null
    useMediaPipe,      \* this.useMediaPipe
    mp,                \* the MediaPipeLLM instance's fields
    tasks,             \* MediaPipeLLM.initialize()/loadModel() invocations in flight
    stack,             \* per call: the frames of loadModel/loadMediaPipeModel
    ret,               \* per call: a settled child result the top frame must take
    call,              \* per call: what the call did (history)
    progress,          \* per call: last value given to its progress callback
    infer,             \* the last inference request and what it did
    sw,                \* the last switchBackend call and what it did
    em,                \* a streaming emission in progress
    pf,                \* the argument and results of a method applied on its own
    reinit,            \* the repeated initialize() calls and the state before the last
    bm,                \* the last benchmarkModel call and what it did
    nCalls             \* number of client operations started

vars == <<app, window, supportedDevices, supportedBackends, currentBackend,
          isInitialized, initPc, config, models, mediaPipeLLM, useMediaPipe,
          mp, tasks, stack, ret, call, progress, infer, sw, em, pf, reinit, bm,
          nCalls>>

\* The loadModel calls the per-call variables keep a record for.
Slots == DOMAIN stack

\* One loadModel call at a time, and two that may overlap.
OneCall == {"c1"}
TwoCalls == {"c1", "c2"}

----------------------------------------------------------------------------
(* Values *)

NoErr == [kind |-> "none", about |-> "", inner |-> <<>>]
Err(kind, about) == [kind |-> kind, about |-> about, inner |-> <<>>]
Short(e) == [kind |-> e.kind, about |-> e.about]

NoRet == [set |-> FALSE, ok |-> FALSE, err |-> NoErr]
Ret(ok, err) == [set |-> TRUE, ok |-> ok, err |-> err]

\* A registry entry.  session says whether the entry has a truthy `session`
\* field, which is what unloadModel tests: no entry this code stores has one.
NoHandle == [present |-> FALSE, loaded |-> FALSE, backend |-> "none",
             device |-> "none", path |-> "none", session |-> FALSE]

NoProgress == 0 - 1

IdleSwitch == [callNo |-> 0, newBackend |-> "", status |-> "idle"]

\* initialize() has not been called a second time.
IdleReinit == [n |-> 0]

\* benchmarkModel has not been called.
IdleBench == [pc |-> "idle", n |-> 0]

\* No streaming emission yet: n counts the emissions, raw is the text of the
\* last one and prev holds the events of the last one that resolved.
IdleEmitter == [pc |-> "idle", n |-> 0, raw |-> <<>>, prev |-> <<>>]

IdleInfer == [op |-> "none", stream |-> FALSE, status |-> "idle", err |-> "none",
              invoked |-> 0, failed |-> FALSE, substitute |-> FALSE, events |-> <<>>]

IdleCall == [status |-> "idle", callNo |-> 0, key |-> "", startName |-> "",
             startDev |-> "", prior |-> NoHandle,
             err |-> NoErr, attempts |-> <<>>, loads |-> <<>>,
             mpFailed |-> FALSE, mpErr |-> NoErr, registered |-> FALSE]

Frame(fn, pc, key, wrap) ==
    [fn |-> fn, pc |-> pc, key |-> key, wrap |-> wrap, path |-> "", dev |-> "",
     name |-> "", i |-> 0, plan |-> <<>>, orig |-> "", err |-> NoErr]

FreshMediaPipe == [isInitialized |-> FALSE, llmInference |-> FALSE, currentModel |-> "null"]

\* The part of the state the load path reads and writes, as one record.
World ==
    [config |-> config, models |-> models, mediaPipeLLM |-> mediaPipeLLM,
     useMediaPipe |-> useMediaPipe, mp |-> mp, tasks |-> tasks, stack |-> stack,
     ret |-> ret, call |-> call, progress |-> progress]

Commit(w) ==
    /\ config' = w.config
    /\ models' = w.models
    /\ mediaPipeLLM' = w.mediaPipeLLM
    /\ useMediaPipe' = w.useMediaPipe
    /\ mp' = w.mp
    /\ tasks' = w.tasks
    /\ stack' = w.stack
    /\ ret' = w.ret
    /\ call' = w.call
    /\ progress' = w.progress

Top(w, s) == w.stack[s][Len(w.stack[s])]
Push(w, s, f) == [w EXCEPT !.stack[s] = Append(@, f)]
Pop(w, s) == [w EXCEPT !.stack[s] = SubSeq(@, 1, Len(@) - 1)]
SetTop(w, s, f) == [w EXCEPT !.stack[s][Len(w.stack[s])] = f]

\* A progress value as the top-level callback receives it, in hundredths:
\* every cascade level wraps the callback as p -> 20 + p * 0.7 (lines 322-326).
RECURSIVE ProgressThrough(_, _)
ProgressThrough(k, v) ==
    IF k = 0 THEN 100 * v ELSE 2000 + (7 * ProgressThrough(k - 1, v)) \div 10

Report(w, s, k, v) == [w EXCEPT !.progress[s] = ProgressThrough(k, v)]

\* The frame on top of the stack has finished with (ok, err): its caller takes
\* the result, or, when it was the outermost frame, the call settles.
Settle(w, s, ok, err) ==
    LET p == Pop(w, s) IN
    IF p.stack[s] = <<>>
    THEN [p EXCEPT !.call[s].status = IF ok THEN "resolved" ELSE "rejected",
                   !.call[s].err = err]
    ELSE [p EXCEPT !.ret[s] = Ret(ok, err)]

Busy(s) ==
    \/ ret[s].set
    \/ stack[s] # <<>> /\ stack[s][Len(stack[s])].pc = "catch"

\* No continuation (microtask) is pending: only then can an event be taken.
Quiescent == \A s \in Slots : ~Busy(s)

----------------------------------------------------------------------------
(* ModelManager.loadModel and loadMediaPipeModel, from one await to the next *)

\* An invocation of MediaPipeLLM.initialize() or MediaPipeLLM.loadModel() in
\* flight.  waiter is who awaits it in a race ("mm" is ModelManager.initialize,
\* "none" once the race was lost to the timer); cb, callNo and wrap identify
\* the progress callback that was handed to it.
InitTask(waiter) ==
    [kind |-> "init", phase |-> "create", waiter |-> waiter, modelId |-> "",
     cb |-> "none", callNo |-> 0, wrap |-> 0]
LoadTask(w, s, modelId, wrap) ==
    [kind |-> "load", phase |-> "download", waiter |-> s, modelId |-> modelId,
     cb |-> s, callNo |-> w.call[s].callNo, wrap |-> wrap]

\* modelPath of lines 160 and 173-175.
ModelPath(modelName) ==
    IF HasQ4F16Suffix(modelName) THEN RemoveQ4F16(modelName) ELSE modelName

DeviceToUseMutKeepsWebGPU(modelName, device) == device

\* deviceToUse of lines 157 and 181-184.
DeviceToUse(modelName, device) ==
    IF IsSmolLM2(ModelPath(modelName)) /\ device = "webgpu"
    THEN (IF \E i \in 1..Len(supportedDevices) : supportedDevices[i] = "wasm"
          THEN "wasm" ELSE "cpu")
    ELSE device

\* loadMediaPipeModel lines 271-282: map the identifier and start the
\* MediaPipe load, raced against the 15 s timer.  MediaPipeLLM.loadModel's own
\* first lines (104-125) run in the same turn.
StartMediaPipeLoad(w, s) ==
    LET f == Top(w, s)
        mediaPipeModelId == mapToMediaPipeModel(f.name)
        w1 == Report(w, s, f.wrap, 30)
    IN  IF ~w1.mediaPipeLLM
        THEN \* this.mediaPipeLLM is null: the call at line 280 throws
             SetTop(w1, s, [f EXCEPT !.pc = "catch", !.err = Err("TypeError", "mediaPipeLLM")])
        ELSE IF mediaPipeModelId \notin supportedModels
        THEN SetTop(Report(w1, s, f.wrap, -1), s,
                    [f EXCEPT !.pc = "catch",
                              !.err = Err("UnsupportedModel", mediaPipeModelId)])
        ELSE [SetTop(Report(w1, s, f.wrap, 25), s, [f EXCEPT !.pc = "loadRace"])
                EXCEPT !.tasks = @ \cup {LoadTask(w, s, mediaPipeModelId, f.wrap)}]

\* loadMediaPipeModel lines 245-269, up to its first await.
EnterMediaPipe(w, s, modelName, wrap) ==
    LET f  == [Frame("loadMediaPipeModel", "catch", "textgen", wrap) EXCEPT !.name = modelName]
        w0 == Push(w, s, f)
    IN  IF ~w.mediaPipeLLM
        THEN SetTop(w0, s, [f EXCEPT !.err = Err("MediaPipeNotAvailable", "")])
        ELSE IF ~w.mp.isInitialized
        THEN LET w1 == Report(w0, s, wrap, 10) IN
             IF window.LlmInference
             THEN [SetTop(w1, s, [f EXCEPT !.pc = "initRace"])
                     EXCEPT !.tasks = @ \cup {InitTask(s)}]
             ELSE \* initializeMediaPipe throws at line 97: initialize() rejects
                  \* within the turn, long before the 2 s timer
                  SetTop(w1, s, [f EXCEPT !.err = Err("MediaPipeUnavailable", "LibraryNotFound")])
        ELSE StartMediaPipeLoad(Report(w0, s, wrap, 5), s)

\* loadModel lines 140-197, up to its first await.  The caller has already
\* popped nothing: the new frame goes on top of the stack.
EnterLoadModel(w, s, modelName, wrap) ==
    IF modelName \notin Keys
    THEN \* line 144 throws; the catch block reads this.config[modelName].device
         \* at line 217, which throws a TypeError out of loadModel
         LET w0 == Push(w, s, Frame("loadModel", "pipeline", modelName, wrap))
         IN  Settle(w0, s, FALSE, Err("TypeError", "device"))
    ELSE
    LET cfg == w.config[modelName] IN
    IF modelName = "textgen" /\ shouldUseMediaPipe(cfg.modelName, w.useMediaPipe)
    THEN EnterMediaPipe(Push(w, s, Frame("loadModel", "child", modelName, wrap)),
                        s, cfg.modelName, wrap)
    ELSE LET deviceToUse == DeviceToUse(cfg.modelName, cfg.device)
             modelPath   == ModelPath(cfg.modelName)
             f == [Frame("loadModel", "pipeline", modelName, wrap)
                     EXCEPT !.path = modelPath, !.dev = deviceToUse]
             w1 == Report(Push(w, s, f), s, wrap, 0)
         IN  [w1 EXCEPT !.call[s].loads =
                           Append(@, [id |-> modelPath, dev |-> deviceToUse])]

\* loadModel's catch block, lines 213-225, for a configured key.
LoadModelCatchMutNoRetry(w, s, error) ==
    Settle(Report(w, s, Top(w, s).wrap, -1), s, FALSE, error)

LoadModelCatchMutDropHandle(w, s, error) ==
    LET f  == Top(w, s)
        w0 == [w EXCEPT !.models[f.key] = NoHandle]
    IN  IF w.config[f.key].device = "webgpu"
        THEN LET w1 == [w0 EXCEPT !.config[f.key].device = "wasm"]
                 w2 == SetTop(w1, s, [f EXCEPT !.pc = "retry"])
             IN  EnterLoadModel(w2, s, f.key, f.wrap)
        ELSE Settle(Report(w0, s, f.wrap, -1), s, FALSE, error)

LoadModelCatch(w, s, error) ==
    LET f == Top(w, s) IN
    IF w.config[f.key].device = "webgpu"
    THEN LET w1 == [w EXCEPT !.config[f.key].device = "wasm"]
             w2 == SetTop(w1, s, [f EXCEPT !.pc = "retry"])
         IN  EnterLoadModel(w2, s, f.key, f.wrap)
    ELSE Settle(Report(w, s, f.wrap, -1), s, FALSE, error)

\* loadModel lines 199-211: the pipeline is stored and the call returns true.
RegisterPipeline(w, s) ==
    LET f == Top(w, s)
        w1 == [w EXCEPT !.models[f.key] =
                           [present |-> TRUE, loaded |-> TRUE, backend |-> "onnx",
                            device |-> f.dev, path |-> f.path, session |-> FALSE],
                        !.call[s].registered = TRUE]
    IN  Settle(Report(w1, s, f.wrap, 100), s, TRUE, NoErr)

\* loadMediaPipeModel lines 284-297.
RegisterMediaPipe(w, s) ==
    LET f == Top(w, s)
        w1 == [w EXCEPT !.models["textgen"] =
                           [present |-> TRUE, loaded |-> TRUE, backend |-> "mediapipe",
                            device |-> "mediapipe", path |-> mapToMediaPipeModel(f.name),
                            session |-> FALSE],
                        !.useMediaPipe = TRUE,
                        !.call[s].registered = TRUE]
    IN  Settle(Report(w1, s, f.wrap, 100), s, TRUE, NoErr)

----------------------------------------------------------------------------
(* Continuations: the code that runs when an awaited child call has settled *)

MarkAttempt(w, s, res) ==
    [w EXCEPT !.call[s].attempts[Len(w.call[s].attempts)].res = res]

\* Substitute the identifier and load it (lines 319-322 and 344-347).
TryFallback(w, s, f, fallbackModel, slot) ==
    LET w1 == [w EXCEPT !.config["textgen"].modelName = fallbackModel,
                        !.call[s].attempts =
                            Append(@, [id |-> fallbackModel, slot |-> slot, res |-> "pending"])]
    IN  EnterLoadModel(SetTop(w1, s, f), s, "textgen", f.wrap + 1)

AllFallbacksFailedMutLastOnly(error, emergencyError) ==
    [kind |-> "AllFallbacksFailed", about |-> "", inner |-> <<Short(emergencyError)>>]

\* The error thrown at line 359.
AllFallbacksFailed(error, emergencyError) ==
    [kind |-> "AllFallbacksFailed", about |-> "",
     inner |-> <<Short(error), Short(emergencyError)>>]

\* loadMediaPipeModel's catch block up to the first fallback load (lines 299-322).
MediaPipeCatchStep(w, s) ==
    LET f == Top(w, s)
        w1 == [Report(w, s, f.wrap, 15) EXCEPT !.useMediaPipe = FALSE,
                                               !.call[s].mpFailed = TRUE,
                                               !.call[s].mpErr = f.err]
        fallbackModels == getFallbackONNXModel(f.name)
    IN  IF fallbackModels = NoFallback
        THEN Settle(w1, s, FALSE,
                    [kind |-> "NoFallbackFound", about |-> "", inner |-> <<Short(f.err)>>])
        ELSE TryFallback(w1, s,
                         [f EXCEPT !.pc = "candidate", !.i = 1, !.plan = fallbackModels,
                                   !.orig = w1.config["textgen"].modelName],
                         fallbackModels[1], "plan")

CandidateSettledMutKeepGoing(w, s, r) ==
    LET f  == Top(w, s)
        w1 == MarkAttempt(w, s, IF r.ok THEN "ok" ELSE "failed")
    IN  IF f.pc = "candidate"
        THEN IF f.i = Len(f.plan)
             THEN TryFallback(w1, s, [f EXCEPT !.pc = "emergency"], emergencyFallback,
                              "emergency")
             ELSE TryFallback(w1, s, [f EXCEPT !.i = f.i + 1], f.plan[f.i + 1], "plan")
        ELSE IF r.ok THEN Settle(Report(w1, s, f.wrap, 100), s, TRUE, NoErr)
        ELSE Settle([w1 EXCEPT !.config["textgen"].modelName = f.orig], s, FALSE,
                    AllFallbacksFailed(f.err, r.err))

CandidateSettledMutNoRestore(w, s, r) ==
    LET f == Top(w, s) IN
    IF r.ok
    THEN Settle(Report(MarkAttempt(w, s, "ok"), s, f.wrap, 100), s, TRUE, NoErr)
    ELSE LET w1 == MarkAttempt(w, s, "failed") IN
         IF f.pc = "candidate"
         THEN IF f.i = Len(f.plan)
              THEN TryFallback(w1, s, [f EXCEPT !.pc = "emergency"], emergencyFallback,
                               "emergency")
              ELSE TryFallback(w1, s, [f EXCEPT !.i = f.i + 1], f.plan[f.i + 1], "plan")
         ELSE Settle(w1, s, FALSE, AllFallbacksFailed(f.err, r.err))

\* A fallback load has settled (lines 328-360).
CandidateSettled(w, s, r) ==
    LET f == Top(w, s) IN
    IF r.ok
    THEN Settle(Report(MarkAttempt(w, s, "ok"), s, f.wrap, 100), s, TRUE, NoErr)
    ELSE LET w1 == MarkAttempt(w, s, "failed") IN
         IF f.pc = "candidate"
         THEN IF f.i = Len(f.plan)
              THEN TryFallback(w1, s, [f EXCEPT !.pc = "emergency"], emergencyFallback,
                               "emergency")
              ELSE TryFallback(w1, s, [f EXCEPT !.i = f.i + 1], f.plan[f.i + 1], "plan")
         ELSE Settle([w1 EXCEPT !.config["textgen"].modelName = f.orig], s, FALSE,
                     AllFallbacksFailed(f.err, r.err))

ContinueStep(w, s, r) ==
    LET f == Top(w, s) IN
    IF f.fn = "loadModel"
    THEN IF f.pc = "child"
         THEN \* return await this.loadMediaPipeModel(...), inside the try (line 149)
              IF r.ok THEN Settle(w, s, TRUE, NoErr) ELSE LoadModelCatch(w, s, r.err)
         ELSE \* return this.loadModel(...), inside the catch (line 220)
              Settle(w, s, r.ok, r.err)
    ELSE CandidateSettled(w, s, r)

Continue(s) ==
    /\ ret[s].set
    /\ Commit(ContinueStep([World EXCEPT !.ret[s] = NoRet], s, ret[s]))
    /\ UNCHANGED <<app, reinit, bm, sw, em, pf, window, supportedDevices, supportedBackends, currentBackend,
                   isInitialized, initPc, infer, nCalls>>

MediaPipeCatch(s) ==
    /\ ~ret[s].set
    /\ stack[s] # <<>>
    /\ Top(World, s).pc = "catch"
    /\ Commit(MediaPipeCatchStep(World, s))
    /\ UNCHANGED <<app, reinit, bm, sw, em, pf, window, supportedDevices, supportedBackends, currentBackend,
                   isInitialized, initPc, infer, nCalls>>

----------------------------------------------------------------------------
(* Events of the load path *)

\* A client calls loadModel(key, progressCallback).  While initialize() is
\* still awaiting MediaPipe, the client's calls are those for the text model,
\* the only ones that meet the initialisation in flight.
StartLoadModel(s, key) ==
    /\ app = "ModelManager"
    /\ Quiescent
    /\ initPc \in {"mpRace", "done"}
    /\ initPc = "mpRace" => key = "textgen"
    /\ stack[s] = <<>>
    /\ infer.status # "running"
    /\ nCalls < MaxCalls
    /\ nCalls' = nCalls + 1
    /\ LET w0 == [World EXCEPT
                    !.call[s] = [IdleCall EXCEPT
                        !.status = "running", !.callNo = nCalls + 1, !.key = key,
                        !.startName = IF key \in Keys THEN config[key].modelName ELSE "",
                        !.startDev = IF key \in Keys THEN config[key].device ELSE "",
                        !.prior = IF key \in Keys THEN models[key] ELSE NoHandle],
                    !.progress[s] = NoProgress]
       IN  Commit(EnterLoadModel(w0, s, key, 0))
    /\ infer' = IdleInfer
    /\ UNCHANGED <<app, reinit, bm, sw, em, pf, window, supportedDevices, supportedBackends, currentBackend,
                   isInitialized, initPc>>

\* The Transformers.js pipeline() call of line 197 settles.
PipelineSettles(s, ok) ==
    /\ Quiescent
    /\ stack[s] # <<>>
    /\ Top(World, s).fn = "loadModel"
    /\ Top(World, s).pc = "pipeline"
    /\ Commit(IF ok THEN RegisterPipeline(World, s)
                    ELSE LoadModelCatch(World, s, Err("LoadError", Top(World, s).path)))
    /\ UNCHANGED <<app, reinit, bm, sw, em, pf, window, supportedDevices, supportedBackends, currentBackend,
                   isInitialized, initPc, infer, nCalls>>

----------------------------------------------------------------------------
(* MediaPipeLLM.initialize() and MediaPipeLLM.loadModel() in flight *)

\* The progress callback handed to a MediaPipe load still belongs to the call
\* that made it while that call's record is the slot's current one.
TaskReport(w, t, v) ==
    IF t.cb \in Slots /\ w.call[t.cb].callNo = t.callNo
    THEN Report(w, t.cb, t.wrap, v) ELSE w

\* The race of lines 258-268 settles for the frame awaiting it.
InitRaceSettled(w, s, ok, error) ==
    LET f == Top(w, s) IN
    IF ok
    THEN StartMediaPipeLoad(Report(w, s, f.wrap, 25), s)
    ELSE SetTop(w, s, [f EXCEPT !.pc = "catch",
                                !.err = Err("MediaPipeUnavailable", error.kind)])

\* The race of line 282 settles for the frame awaiting it.
LoadRaceSettled(w, s, ok, error) ==
    IF ok THEN RegisterMediaPipe(w, s)
          ELSE SetTop(w, s, [Top(w, s) EXCEPT !.pc = "catch", !.err = error])

\* ModelManager.initializeMediaPipe lines 117-127: the outcome of its race.
ManagerRaceSettled(w, ok) ==
    IF ok THEN w ELSE [w EXCEPT !.mediaPipeLLM = FALSE, !.useMediaPipe = FALSE]

DeliverInit(w, waiter, ok, error) ==
    IF waiter = "mm" THEN ManagerRaceSettled(w, ok)
    ELSE IF waiter \in Slots THEN InitRaceSettled(w, waiter, ok, error)
    ELSE w

DeliverLoad(w, waiter, ok, error) ==
    IF waiter \in Slots THEN LoadRaceSettled(w, waiter, ok, error) ELSE w

InitPcAfter(waiter) == IF waiter = "mm" THEN "done" ELSE initPc
IsInitializedAfter(waiter) == IF waiter = "mm" THEN TRUE ELSE isInitialized

\* MediaPipeLLM.initialize lines 52-57 after createFromOptions resolved
\* (lines 71/86): the late result of an initialize() that already timed out
\* (phase "createLate") still assigns this.llmInference.
CreateResolved(w, t) ==
    IF t.phase = "create"
    THEN [w EXCEPT !.mp.llmInference = TRUE, !.mp.isInitialized = TRUE]
    ELSE [w EXCEPT !.mp.llmInference = TRUE]

\* LlmInference.createFromOptions settles.
CreateFromOptionsSettles(t, ok) ==
    /\ Quiescent
    /\ t \in tasks
    /\ t.kind = "init"
    /\ LET w0 == [World EXCEPT !.tasks = @ \ {t}]
           w1 == IF ok THEN CreateResolved(w0, t) ELSE w0
           waiter == IF t.phase = "create" THEN t.waiter ELSE "none"
       IN  /\ Commit(DeliverInit(w1, waiter, ok, Err("MediaPipeInitError", "")))
           /\ initPc' = InitPcAfter(waiter)
           /\ isInitialized' = IsInitializedAfter(waiter)
    /\ UNCHANGED <<app, reinit, bm, sw, em, pf, window, supportedDevices, supportedBackends, currentBackend,
                   infer, nCalls>>

\* The 2 s timer of ModelManager (lines 111-113, 258-260) fires first.
ManagerInitTimeout(t) ==
    /\ Quiescent
    /\ t \in tasks
    /\ t.kind = "init"
    /\ t.phase = "create"
    /\ t.waiter # "none"
    /\ LET w0 == [World EXCEPT !.tasks = (@ \ {t}) \cup {[t EXCEPT !.waiter = "none"]}]
       IN  Commit(DeliverInit(w0, t.waiter, FALSE, Err("InitTimeout", "")))
    /\ initPc' = InitPcAfter(t.waiter)
    /\ isInitialized' = IsInitializedAfter(t.waiter)
    /\ UNCHANGED <<app, reinit, bm, sw, em, pf, window, supportedDevices, supportedBackends, currentBackend,
                   infer, nCalls>>

\* The 5 s timer of MediaPipeLLM.initialize (lines 48-50) fires: it can only
\* fire after the 2 s timer that was started in the same turn.
MediaPipeInitTimeout(t) ==
    /\ Quiescent
    /\ t \in tasks
    /\ t.kind = "init"
    /\ t.phase = "create"
    /\ ManagerInitTimeoutMs < MediaPipeInitTimeoutMs => t.waiter = "none"
    /\ tasks' = (tasks \ {t}) \cup {[t EXCEPT !.phase = "createLate"]}
    /\ UNCHANGED <<app, reinit, bm, sw, em, pf, window, supportedDevices, supportedBackends, currentBackend,
                   isInitialized, initPc, config, models, mediaPipeLLM, useMediaPipe,
                   mp, stack, ret, call, progress, infer, nCalls>>

\* MediaPipeLLM.loadModel lines 127-150: the simulated download has run and
\* setOptions is called.
DownloadDone(t) ==
    /\ Quiescent
    /\ t \in tasks
    /\ t.kind = "load"
    /\ t.phase = "download"
    /\ LET w0 == TaskReport([World EXCEPT !.tasks = @ \ {t}], t, 90)
       IN  IF mp.llmInference
           THEN Commit([w0 EXCEPT !.tasks = @ \cup {[t EXCEPT !.phase = "setOptions"]}])
           ELSE \* this.llmInference is null: line 150 throws, lines 161-166
                Commit(DeliverLoad(TaskReport(w0, t, -1), t.waiter, FALSE,
                                   Err("TypeError", "llmInference")))
    /\ UNCHANGED <<app, reinit, bm, sw, em, pf, window, supportedDevices, supportedBackends, currentBackend,
                   isInitialized, initPc, infer, nCalls>>

\* MediaPipeLLM.loadModel lines 150-166: setOptions settles.
SetOptionsResolved(w, t) ==
    TaskReport([w EXCEPT !.mp.currentModel = t.modelId], t, 100)

SetOptionsSettles(t, ok) ==
    /\ Quiescent
    /\ t \in tasks
    /\ t.kind = "load"
    /\ t.phase = "setOptions"
    /\ LET w0 == [World EXCEPT !.tasks = @ \ {t}]
           w1 == IF ok THEN SetOptionsResolved(w0, t) ELSE TaskReport(w0, t, -1)
       IN  Commit(DeliverLoad(w1, t.waiter, ok, Err("MediaPipeLoadError", t.modelId)))
    /\ UNCHANGED <<app, reinit, bm, sw, em, pf, window, supportedDevices, supportedBackends, currentBackend,
                   isInitialized, initPc, infer, nCalls>>

\* The 15 s timer of lines 276-278 fires before the MediaPipe load settles;
\* the simulated download (4 x 200 ms) is over by then.
ModelLoadTimeout(t) ==
    /\ Quiescent
    /\ t \in tasks
    /\ t.kind = "load"
    /\ t.waiter \in Slots
    /\ DownloadSteps * DownloadStepMs < ModelLoadTimeoutMs => t.phase = "setOptions"
    /\ LET w0 == [World EXCEPT !.tasks = (@ \ {t}) \cup {[t EXCEPT !.waiter = "none"]}]
       IN  Commit(DeliverLoad(w0, t.waiter, FALSE, Err("LoadTimeout", t.modelId)))
    /\ UNCHANGED <<app, reinit, bm, sw, em, pf, window, supportedDevices, supportedBackends, currentBackend,
                   isInitialized, initPc, infer, nCalls>>

----------------------------------------------------------------------------
(* ModelManager.initialize() *)

\* detectSupportedDevices lines 86-99 and initializeMediaPipe lines 102-132,
\* up to the await of line 118.
FinishDetection(devices) ==
    /\ supportedDevices' = devices
    /\ config' = [k \in Keys |-> [config[k] EXCEPT !.device = devices[1]]]
    /\ supportedBackends' =
           IF window.MediaPipeLLM THEN Append(devices, "mediapipe") ELSE devices
    /\ currentBackend' = devices[1]
    /\ IF window.MediaPipeLLM /\ window.LlmInference
       THEN /\ mediaPipeLLM' = TRUE
            /\ mp' = FreshMediaPipe
            /\ tasks' = tasks \cup {InitTask("mm")}
            /\ initPc' = "mpRace"
            /\ UNCHANGED <<useMediaPipe, isInitialized>>
       ELSE \* no MediaPipeLLM class (lines 128-131), or initialize() rejects at
            \* once because the library is missing (lines 120-124)
            /\ mediaPipeLLM' = FALSE
            /\ useMediaPipe' = FALSE
            /\ mp' = FreshMediaPipe
            /\ initPc' = "done"
            /\ isInitialized' = TRUE
            /\ UNCHANGED tasks

\* initialize() is called: detectSupportedDevices lines 65-76.
Initialize ==
    /\ app = "ModelManager"
    /\ initPc = "idle"
    /\ LET devices == IF window.WebAssembly THEN <<"wasm", "cpu">> ELSE <<"cpu">>
       IN  IF window.gpu
           THEN /\ supportedDevices' = devices
                /\ initPc' = "adapter"
                /\ UNCHANGED <<config, supportedBackends, currentBackend, mediaPipeLLM,
                               mp, tasks, useMediaPipe, isInitialized>>
           ELSE FinishDetection(devices)
    /\ UNCHANGED <<app, reinit, bm, sw, em, pf, window, models, stack, ret, call, progress, infer, nCalls>>

\* Variant: the adapter is pushed to the end of the list instead of unshifted.
AdapterSettlesMutPush(outcome) ==
    /\ initPc = "adapter"
    /\ FinishDetection(IF outcome = "adapter"
                       THEN Append(supportedDevices, "webgpu") ELSE supportedDevices)
    /\ UNCHANGED <<app, reinit, bm, sw, em, pf, window, models, stack, ret, call, progress, infer, nCalls>>

\* Variant: the `if (adapter)` test of line 77 is missing.
AdapterSettlesMutNullCounts(outcome) ==
    /\ initPc = "adapter"
    /\ FinishDetection(IF outcome \in {"adapter", "null"}
                       THEN <<"webgpu">> \o supportedDevices ELSE supportedDevices)
    /\ UNCHANGED <<app, reinit, bm, sw, em, pf, window, models, stack, ret, call, progress, infer, nCalls>>

\* navigator.gpu.requestAdapter() settles (lines 76-83).
AdapterSettles(outcome) ==
    /\ initPc = "adapter"
    /\ FinishDetection(IF outcome = "adapter"
                       THEN <<"webgpu">> \o supportedDevices ELSE supportedDevices)
    /\ UNCHANGED <<app, reinit, bm, sw, em, pf, window, models, stack, ret, call, progress, infer, nCalls>>

\* Number of times initialize() is called again after it has completed.
MaxReinits == 1

\* The fields a repeated initialize() is expected to leave alone.
Observed ==
    [supportedDevices |-> supportedDevices, config |-> config,
     currentBackend |-> currentBackend, mediaPipeLLM |-> mediaPipeLLM, mp |-> mp,
     models |-> models]

\* initialize() is called again after it has completed, while no other call is
\* in flight.  The method has no guard on isInitialized: lines 34-63 run as
\* they did the first time, detectSupportedDevices from line 66.
Reinitialize ==
    /\ app = "ModelManager"
    /\ initPc = "done"
    /\ Quiescent
    /\ \A s \in Slots : stack[s] = <<>>
    /\ infer.status # "running"
    /\ reinit.n < MaxReinits
    /\ reinit' = [n |-> reinit.n + 1, before |-> Observed, switches |-> sw.callNo,
                  calls |-> nCalls]
    /\ LET devices == IF window.WebAssembly THEN <<"wasm", "cpu">> ELSE <<"cpu">>
       IN  IF window.gpu
           THEN /\ supportedDevices' = devices
                /\ initPc' = "adapter"
                /\ UNCHANGED <<config, supportedBackends, currentBackend, mediaPipeLLM,
                               mp, tasks, useMediaPipe, isInitialized>>
           ELSE FinishDetection(devices)
    /\ UNCHANGED <<app, bm, sw, em, pf, window, models, stack, ret, call, progress, infer,
                   nCalls>>

----------------------------------------------------------------------------
(* PollinationsModelManager (audio-processor.js) *)

\* initialize() is called: testApiConnectivity issues its fetch.
PollinationsInitialize ==
    /\ app = "PollinationsModelManager"
    /\ initPc = "idle"
    /\ initPc' = "connectivity"
    /\ UNCHANGED <<app, reinit, bm, sw, em, pf, window, supportedDevices, supportedBackends, currentBackend,
                   isInitialized, config, models, mediaPipeLLM, useMediaPipe,
                   mp, tasks, stack, ret, call, progress, infer, nCalls>>

\* The connectivity fetch settles: a failure is logged and swallowed.
ConnectivitySettles(ok) ==
    /\ app = "PollinationsModelManager"
    /\ initPc = "connectivity"
    /\ initPc' = "done"
    /\ isInitialized' = TRUE
    /\ UNCHANGED <<app, reinit, bm, sw, em, pf, window, supportedDevices, supportedBackends, currentBackend,
                   config, models, mediaPipeLLM, useMediaPipe,
                   mp, tasks, stack, ret, call, progress, infer, nCalls>>

\* A client calls PollinationsModelManager.loadModel(key, progressCallback):
\* progress 0, then the 500 ms timer is awaited.
PollinationsLoadModel(s, key) ==
    /\ app = "PollinationsModelManager"
    /\ stack[s] = <<>>
    /\ infer.status # "running"
    /\ nCalls < MaxCalls
    /\ nCalls' = nCalls + 1
    /\ LET w0 == [World EXCEPT
                    !.call[s] = [IdleCall EXCEPT
                        !.status = "running", !.callNo = nCalls + 1, !.key = key,
                        !.prior = IF key \in PollinationsKeys THEN models[key]
                                                               ELSE NoHandle],
                    !.progress[s] = NoProgress]
       IN  Commit(Report(Push(w0, s, Frame("pollinationsLoadModel", "timer", key, 0)),
                         s, 0, 0))
    /\ infer' = IdleInfer
    /\ UNCHANGED <<app, reinit, bm, sw, em, pf, window, supportedDevices, supportedBackends, currentBackend,
                   isInitialized, initPc>>

\* The rest of PollinationsModelManager.loadModel, after the timer.
PollinationsRegister(w, s) ==
    LET f == Top(w, s) IN
    IF f.key \in PollinationsKeys
    THEN LET w1 == [w EXCEPT !.models[f.key] =
                                [present |-> TRUE, loaded |-> TRUE,
                                 backend |-> IF f.key = "textgen" THEN "pollinations"
                                                                  ELSE "web-speech-api",
                                 device |-> "cloud-api", path |-> "none", session |-> FALSE],
                             !.call[s].registered = TRUE]
         IN  Settle(Report(w1, s, 0, 100), s, TRUE, NoErr)
    ELSE Settle(w, s, TRUE, NoErr)

PollinationsLoadTimer(s) ==
    /\ stack[s] # <<>>
    /\ Top(World, s).fn = "pollinationsLoadModel"
    /\ Commit(PollinationsRegister(World, s))
    /\ UNCHANGED <<app, reinit, bm, sw, em, pf, window, supportedDevices, supportedBackends, currentBackend,
                   isInitialized, initPc, infer, nCalls>>

----------------------------------------------------------------------------
(* Inference: runWhisperInference and runTextGeneration of both managers *)

\* A response as the word emitters see it, response.split(' '): a word is
\* plain, ends a sentence (/[.!?]$/), or is empty (two adjacent spaces).
WordKinds == {"plain", "term", "empty"}
Responses == UNION {[1..n -> WordKinds] : n \in 1..MaxWords}

\* String.prototype.trim() followed by split(' '): leading and trailing empty
\* words go; the empty string splits into one empty word.
RECURSIVE Trimmed(_)
Trimmed(words) ==
    IF Len(words) = 1 THEN words
    ELSE IF words[1] = "empty" THEN Trimmed(Tail(words))
    ELSE IF words[Len(words)] = "empty" THEN Trimmed(SubSeq(words, 1, Len(words) - 1))
    ELSE words

\* The event loop of runStreamingGeneration and of generateStreamingText:
\* buffered says that the sentence buffer holds a non-empty word.
RECURSIVE EmitFrom(_, _, _)
EmitFrom(words, i, buffered) ==
    IF i > Len(words)
    THEN (IF buffered THEN <<"sentence">> ELSE <<>>) \o <<"complete">>
    ELSE IF words[i] = "term"
    THEN <<"sentence">> \o EmitFrom(words, i + 1, FALSE)
    ELSE <<"word">> \o EmitFrom(words, i + 1, buffered \/ words[i] = "plain")

\* PollinationsModelManager.simulateStreaming: one event for every non-blank
\* piece between sentence terminators, then the completion event.
RECURSIVE SimulateFrom(_, _, _)
SimulateFrom(words, i, buffered) ==
    IF i > Len(words)
    THEN (IF buffered THEN <<"sentence">> ELSE <<>>) \o <<"complete">>
    ELSE IF words[i] = "term"
    THEN <<"sentence">> \o SimulateFrom(words, i + 1, FALSE)
    ELSE SimulateFrom(words, i + 1, buffered \/ words[i] = "plain")

Rejected(op, stream, kind) ==
    [IdleInfer EXCEPT !.op = op, !.stream = stream, !.status = "rejected", !.err = kind]
Running(op, stream, invoked) ==
    [IdleInfer EXCEPT !.op = op, !.stream = stream, !.status = "running",
                      !.invoked = invoked]

\* runWhisperInference(audioData) up to its first await.
runWhisperInference(audioOk) ==
    IF ~models["whisper"].present \/ ~models["whisper"].loaded
    THEN Rejected("whisper", FALSE, "NotLoaded")
    ELSE IF app = "PollinationsModelManager"
    THEN \* no recogniser is called: a demo transcript follows a timer
         Running("whisper", FALSE, 0)
    ELSE IF ~audioOk THEN Rejected("whisper", FALSE, "InvalidAudio")
    ELSE Running("whisper", FALSE, 1)

runTextGenerationMutNoCheck(stream) ==
    Running("textgen", stream, 1)

\* runTextGeneration(prompt, maxTokens, streamCallback) up to its first await.
runTextGeneration(stream) ==
    IF ~models["textgen"].present \/ ~models["textgen"].loaded
    THEN Rejected("textgen", stream, "NotLoaded")
    ELSE IF models["textgen"].backend = "mediapipe"
            /\ (~mp.isInitialized \/ mp.currentModel = "null")
    THEN \* MediaPipeLLM.generateText lines 189-191
         Rejected("textgen", stream, "MediaPipeNotReady")
    ELSE Running("textgen", stream, 1)

\* A client makes an inference request while no load is in flight.
StartInference(op, stream, audioOk) ==
    /\ op = "whisper" => ~stream    \* runWhisperInference takes no stream callback
    /\ op = "textgen" => audioOk    \* runTextGeneration takes no audio
    /\ nCalls < MaxCalls
    /\ infer.status # "running"
    /\ Quiescent
    /\ \A s \in Slots : stack[s] = <<>>
    /\ nCalls' = nCalls + 1
    /\ infer' = IF op = "whisper" THEN runWhisperInference(audioOk)
                                  ELSE runTextGeneration(stream)
    /\ call' = [s \in Slots |-> IdleCall]
    /\ progress' = [s \in Slots |-> NoProgress]
    /\ UNCHANGED <<app, reinit, bm, sw, em, pf, window, supportedDevices, supportedBackends, currentBackend,
                   isInitialized, initPc, config, models, mediaPipeLLM, useMediaPipe,
                   mp, tasks, stack, ret>>

\* The events a finished generation delivers to the stream callback.
StreamEvents(words) ==
    IF app = "PollinationsModelManager" THEN SimulateFrom(words, 1, FALSE)
    ELSE EmitFrom(Trimmed(words), 1, FALSE)

\* Variant: a failed inference marks the handle it used as not loaded.
InferenceSettlesMutMarksUnloaded(ok, words) ==
    /\ infer.status = "running"
    /\ Quiescent
    /\ infer' =
         IF ok
         THEN [infer EXCEPT !.status = "resolved",
                            !.events = IF infer.stream THEN StreamEvents(words) ELSE <<>>]
         ELSE [infer EXCEPT !.status = "rejected", !.failed = TRUE,
                            !.err = "GenerationError"]
    /\ models' = IF ok THEN models ELSE [models EXCEPT ![infer.op].loaded = FALSE]
    /\ infer.invoked = 0 => ok
    /\ ~(ok /\ infer.stream) => words = <<"plain">>
    /\ UNCHANGED <<app, reinit, bm, sw, em, pf, window, supportedDevices, supportedBackends, currentBackend,
                   isInitialized, initPc, config, mediaPipeLLM, useMediaPipe,
                   mp, tasks, stack, ret, call, progress, nCalls>>

\* The backend call (pipeline, generateResponse, fetch) or the demo timer of
\* the running request settles.
InferenceSettles(ok, words) ==
    /\ infer.status = "running"
    /\ Quiescent
    /\ infer' =
         IF ok
         THEN [infer EXCEPT !.status = "resolved",
                            !.events = IF infer.stream THEN StreamEvents(words) ELSE <<>>]
         ELSE IF app = "PollinationsModelManager" /\ infer.op = "textgen"
         THEN \* audio-processor.js 624-635: a canned response is returned
              [infer EXCEPT !.status = "resolved", !.failed = TRUE, !.substitute = TRUE]
         ELSE [infer EXCEPT !.status = "rejected", !.failed = TRUE,
                            !.err = "GenerationError"]
    /\ infer.invoked = 0 => ok
    /\ ~(ok /\ infer.stream) => words = <<"plain">>   \* the text is not looked at
    /\ UNCHANGED <<app, reinit, bm, sw, em, pf, window, supportedDevices, supportedBackends, currentBackend,
                   isInitialized, initPc, config, models, mediaPipeLLM, useMediaPipe,
                   mp, tasks, stack, ret, call, progress, nCalls>>

----------------------------------------------------------------------------
(* Response texts, as sequences of characters *)

MaxLen == 4

TextAlphabet == {"a", ".", " "}

Terminators == {".", "!", "?"}

HelloText ==
    <<"H","e","l","l","o"," ","t","h","e","r","e","."," ",
      "H","o","w"," ","a","r","e"," ","y","o","u","?">>

\* The texts a backend call answers with.
RawTexts == UNION {[1..n -> TextAlphabet] : n \in 0..MaxLen} \cup {HelloText}

Whitespace == {" ", "\n"}

\* String.prototype.trim().
RECURSIVE trim(_)
trim(cs) ==
    IF cs = <<>> THEN cs
    ELSE IF Head(cs) \in Whitespace THEN trim(Tail(cs))
    ELSE IF cs[Len(cs)] \in Whitespace THEN trim(SubSeq(cs, 1, Len(cs) - 1))
    ELSE cs

\* String.prototype.split(' ').
RECURSIVE split(_)
split(cs) ==
    IF \A i \in 1..Len(cs) : cs[i] # " " THEN <<cs>>
    ELSE LET i == CHOOSE i \in 1..Len(cs) :
                      cs[i] = " " /\ \A j \in 1..(i - 1) : cs[j] # " "
         IN  <<SubSeq(cs, 1, i - 1)>> \o split(SubSeq(cs, i + 1, Len(cs)))

\* A variant that knows the full stop only.
EndsSentenceMutPeriodOnly(word) == word # <<>> /\ word[Len(word)] = "."

\* word.match(/[.!?]$/).
EndsSentence(word) == word # <<>> /\ word[Len(word)] \in Terminators

\* String.prototype.split(/[.!?]+/).
RECURSIVE splitSentences(_)
splitSentences(cs) ==
    IF \A i \in 1..Len(cs) : cs[i] \notin Terminators THEN <<cs>>
    ELSE LET i == CHOOSE i \in 1..Len(cs) :
                      cs[i] \in Terminators /\ \A j \in 1..(i - 1) : cs[j] \notin Terminators
             rest == {j \in (i + 1)..Len(cs) : cs[j] \notin Terminators}
             j == IF rest = {} THEN Len(cs) + 1
                  ELSE CHOOSE j \in rest : \A k \in rest : j <= k
         IN  <<SubSeq(cs, 1, i - 1)>> \o splitSentences(SubSeq(cs, j, Len(cs)))

NotBlank(s) == trim(s) # <<>>

----------------------------------------------------------------------------
(* The stream emitters: ModelManager.runStreamingGeneration,
   MediaPipeLLM.generateStreamingText and
   PollinationsModelManager.simulateStreaming, from one await to the next *)

OnnxWordDelayMs == 25
OnnxSentenceDelayMs == 100
MediaPipeWordDelayMs == 20
MediaPipeSentenceDelayMs == 50
Q4WordDelayMs == 15
Q4SentenceDelayMs == 30
PollinationsDelayMinMs == 300

MaxEmissions == 2

\* A field the event object does not have.
Undefined == <<"undefined">>

\* The sentence PollinationsModelManager.runTextGeneration resolves with when
\* its try block threw (one of four, chosen at random).
Canned == <<"fallbackResponse">>

Event(type, text, fullText, isComplete) ==
    [type |-> type, text |-> text, fullText |-> fullText, isComplete |-> isComplete]

\* A variant that does not await the callback of a loop event.
DeliverMutNotAwaited(e, ev, at) ==
    [e EXCEPT !.events = Append(@, ev), !.at = at,
              !.pc = IF at \in {"flush", "complete"} THEN "callback" ELSE "delay",
              !.sentenceBuffer = IF at = "sentence" THEN <<>> ELSE @]

\* The event is handed to the stream callback, which is awaited: at names
\* the await.
Deliver(e, ev, at) ==
    [e EXCEPT !.events = Append(@, ev), !.pc = "callback", !.at = at]

\* MediaPipeLLM.generateText lines 207-208.
Quantization(modelId) == IF modelId = "gemma-3-1b-it-q4" THEN "Q4" ELSE "FP16"
isQ4Model == mp.currentModel \in supportedModels /\ Quantization(mp.currentModel) = "Q4"

\* Which emitter a streaming request on the loaded handle runs.
Emitter ==
    IF app = "PollinationsModelManager" THEN "pollinations"
    ELSE IF models["textgen"].backend = "mediapipe"
    THEN (IF isQ4Model THEN "mediapipeQ4" ELSE "mediapipe")
    ELSE "onnx"

(* runStreamingGeneration (src/unnamed/part_000) *)

\* Lines 606-613.
OnnxComplete(e) ==
    Deliver(e, Event("complete", trim(e.fullResponse), Undefined, TRUE), "complete")

\* A variant that forgets the text left in the sentence buffer.
OnnxAfterLoopMutNoFlush(e) == OnnxComplete(e)

\* Lines 594-604.
OnnxAfterLoop(e) ==
    IF trim(e.sentenceBuffer) # <<>>
    THEN Deliver(e, Event("sentence", trim(e.sentenceBuffer), Undefined, FALSE), "flush")
    ELSE OnnxComplete(e)

\* One turn of the loop of lines 560-592, up to the await of its callback.
OnnxWord(e) ==
    LET word == e.words[e.i]
        e1 == [e EXCEPT !.sentenceBuffer = @ \o word \o <<" ">>,
                        !.fullResponse = @ \o word \o <<" ">>]
    IN  IF EndsSentence(word)
        THEN Deliver(e1, Event("sentence", trim(e1.sentenceBuffer), Undefined, FALSE),
                     "sentence")
        ELSE Deliver(e1, Event("word", word, trim(e1.fullResponse), FALSE), "word")

OnnxNext(e) == IF e.i <= Len(e.words) THEN OnnxWord(e) ELSE OnnxAfterLoop(e)

\* Lines 553-558: the response is extracted (and so trimmed), split, and the
\* loop is entered.
OnnxStart(e, raw) ==
    OnnxNext([e EXCEPT !.text = trim(raw), !.words = split(trim(raw)), !.i = 1])

\* The awaited callback resolved.
OnnxCallbackResolved(e) ==
    CASE e.at = "sentence" ->
           [e EXCEPT !.sentenceBuffer = <<>>, !.pc = "delay", !.timer = OnnxSentenceDelayMs]
      [] e.at = "word" -> [e EXCEPT !.pc = "delay", !.timer = OnnxWordDelayMs]
      [] e.at = "flush" -> OnnxComplete(e)
      [] e.at = "complete" -> [e EXCEPT !.pc = "resolved", !.result = trim(e.fullResponse)]

OnnxDelayElapsed(e) == OnnxNext([e EXCEPT !.i = @ + 1])

(* generateStreamingText (src/mediapipe-llm.js) *)

\* Lines 330-337.
MediaPipeComplete(e) ==
    Deliver(e, Event("complete", trim(e.fullResponse), Undefined, TRUE), "complete")

\* Lines 319-328.
MediaPipeAfterLoop(e) ==
    IF trim(e.sentenceBuffer) # <<>>
    THEN Deliver(e, Event("sentence", trim(e.sentenceBuffer), Undefined, FALSE), "flush")
    ELSE MediaPipeComplete(e)

\* A variant whose Q4 fast path leaves out the word events.
MediaPipeWordMutQ4SkipsWords(e) ==
    LET word == e.words[e.i]
        e1 == [e EXCEPT !.sentenceBuffer = @ \o word \o <<" ">>,
                        !.fullResponse = @ \o word \o <<" ">>]
    IN  IF EndsSentence(word)
        THEN Deliver(e1, Event("sentence", trim(e1.sentenceBuffer), Undefined, FALSE),
                     "sentence")
        ELSE IF e.emitter = "mediapipeQ4"
        THEN [e1 EXCEPT !.pc = "delay", !.timer = Q4WordDelayMs]
        ELSE Deliver(e1, Event("word", word, trim(e1.fullResponse), FALSE), "word")

\* One turn of the loop of lines 284-317, up to the await of its callback
\* (currentSentence and fullText are kept in sentenceBuffer and fullResponse).
MediaPipeWord(e) ==
    LET word == e.words[e.i]
        e1 == [e EXCEPT !.sentenceBuffer = @ \o word \o <<" ">>,
                        !.fullResponse = @ \o word \o <<" ">>]
    IN  IF EndsSentence(word)
        THEN Deliver(e1, Event("sentence", trim(e1.sentenceBuffer), Undefined, FALSE),
                     "sentence")
        ELSE Deliver(e1, Event("word", word, trim(e1.fullResponse), FALSE), "word")

MediaPipeNext(e) ==
    IF e.i <= Len(e.words) THEN MediaPipeWord(e) ELSE MediaPipeAfterLoop(e)

\* Lines 271-282: extractResponseText (lines 355-373) trims the string
\* generateResponse answered with, then the words are split.
MediaPipeStart(e, raw) ==
    MediaPipeNext([e EXCEPT !.text = trim(raw), !.words = split(trim(raw)), !.i = 1])

\* Lines 277-278.
wordDelay(q4) == IF q4 THEN Q4WordDelayMs ELSE MediaPipeWordDelayMs
sentenceDelay(q4) == IF q4 THEN Q4SentenceDelayMs ELSE MediaPipeSentenceDelayMs

MediaPipeCallbackResolved(e) ==
    CASE e.at = "sentence" ->
           [e EXCEPT !.sentenceBuffer = <<>>, !.pc = "delay",
                     !.timer = sentenceDelay(e.emitter = "mediapipeQ4")]
      [] e.at = "word" ->
           [e EXCEPT !.pc = "delay", !.timer = wordDelay(e.emitter = "mediapipeQ4")]
      [] e.at = "flush" -> MediaPipeComplete(e)
      [] e.at = "complete" -> [e EXCEPT !.pc = "resolved", !.result = trim(e.fullResponse)]

MediaPipeDelayElapsed(e) == MediaPipeNext([e EXCEPT !.i = @ + 1])

(* PollinationsModelManager.runTextGeneration with a stream callback, and
   simulateStreaming (src/audio-processor.js) *)

\* runTextGeneration lines 624-635: whatever the try block threw, the call
\* resolves with a canned sentence.
PollinationsCatch(e) ==
    [e EXCEPT !.pc = "resolved", !.result = Canned, !.substitute = TRUE]

\* simulateStreaming lines 660-667.
PollinationsComplete(e) ==
    Deliver(e, Event("complete", e.fullResponse, Undefined, TRUE), "complete")

\* One turn of the loop of lines 644-658 (the sentences are kept in words,
\* accumulatedText in fullResponse).
PollinationsSentence(e) ==
    LET sentence == trim(e.words[e.i]) \o (IF e.i < Len(e.words) THEN <<".">> ELSE <<>>)
        e1 == [e EXCEPT !.fullResponse =
                            @ \o (IF @ # <<>> THEN <<" ">> ELSE <<>>) \o sentence]
    IN  Deliver(e1, Event("sentence", sentence, Undefined, FALSE), "sentence")

PollinationsNext(e) ==
    IF e.i <= Len(e.words) THEN PollinationsSentence(e) ELSE PollinationsComplete(e)

\* runTextGeneration lines 612-619 and simulateStreaming lines 640-642.
PollinationsStart(e, raw) ==
    IF raw = <<>> THEN PollinationsCatch([e EXCEPT !.text = raw])
    ELSE PollinationsNext([e EXCEPT !.text = raw,
                                    !.words = SelectSeq(splitSentences(raw), NotBlank),
                                    !.i = 1])

\* The awaited callback resolved; after the completion event simulateStreaming
\* returns and runTextGeneration resolves with line 622.
PollinationsCallbackResolved(e) ==
    CASE e.at = "sentence" -> [e EXCEPT !.pc = "delay", !.timer = PollinationsDelayMinMs]
      [] e.at = "complete" -> [e EXCEPT !.pc = "resolved", !.result = trim(e.text)]

PollinationsDelayElapsed(e) == PollinationsNext([e EXCEPT !.i = @ + 1])

(* The three as one process *)

\* The kinds of the events delivered, as infer records them.
EventKinds(e) == [i \in 1..Len(e.events) |-> e.events[i].type]

\* The request settles with the emitter.
InferAfter(e) ==
    IF e.pc = "resolved"
    THEN [infer EXCEPT !.status = "resolved", !.events = EventKinds(e),
                       !.substitute = e.substitute]
    ELSE IF e.pc = "rejected"
    THEN [infer EXCEPT !.status = "rejected", !.err = "CallbackError",
                       !.events = EventKinds(e)]
    ELSE infer

\* The backend call of the running streaming request resolves with raw.
BackendResolves(raw) ==
    /\ infer.status = "running" /\ infer.op = "textgen" /\ infer.stream
    /\ em.pc = "waiting"
    /\ em.n > 1 => raw = em.raw
    /\ LET e == [em EXCEPT !.raw = raw, !.emitter = Emitter]
       IN  /\ em' = CASE Emitter = "onnx" -> OnnxStart(e, raw)
                      [] Emitter \in {"mediapipe", "mediapipeQ4"} -> MediaPipeStart(e, raw)
                      [] Emitter = "pollinations" -> PollinationsStart(e, raw)
           /\ infer' = InferAfter(em')
    /\ UNCHANGED <<app, reinit, bm, sw, pf, window, supportedDevices, supportedBackends, currentBackend,
                   isInitialized, initPc, config, models, mediaPipeLLM, useMediaPipe,
                   mp, tasks, stack, ret, call, progress, nCalls>>

\* The stream callback that was handed the last event settles.
CallbackSettles(ok) ==
    /\ em.pc = "callback"
    /\ LET e == [em EXCEPT !.settled = @ + 1]
       IN  /\ em' = IF ~ok
                    THEN (IF e.emitter = "pollinations" THEN PollinationsCatch(e)
                          ELSE [e EXCEPT !.pc = "rejected"])
                    ELSE CASE e.emitter = "onnx" -> OnnxCallbackResolved(e)
                           [] e.emitter \in {"mediapipe", "mediapipeQ4"} ->
                                  MediaPipeCallbackResolved(e)
                           [] e.emitter = "pollinations" -> PollinationsCallbackResolved(e)
           /\ infer' = InferAfter(em')
    /\ UNCHANGED <<app, reinit, bm, sw, pf, window, supportedDevices, supportedBackends, currentBackend,
                   isInitialized, initPc, config, models, mediaPipeLLM, useMediaPipe,
                   mp, tasks, stack, ret, call, progress, nCalls>>

\* The pacing timer fires.
DelayElapses ==
    /\ em.pc = "delay"
    /\ em' = CASE em.emitter = "onnx" -> OnnxDelayElapsed(em)
               [] em.emitter \in {"mediapipe", "mediapipeQ4"} -> MediaPipeDelayElapsed(em)
               [] em.emitter = "pollinations" -> PollinationsDelayElapsed(em)
    /\ UNCHANGED <<app, reinit, bm, sw, pf, window, supportedDevices, supportedBackends, currentBackend,
                   isInitialized, initPc, config, models, mediaPipeLLM, useMediaPipe,
                   mp, tasks, stack, ret, call, progress, infer, nCalls>>

\* A streaming request is being served: its backend call is in flight.
Waiting(e) ==
    [pc |-> "waiting", n |-> e.n + 1, raw |-> e.raw,
     prev |-> IF e.pc = "resolved" /\ ~e.substitute THEN <<e.events>> ELSE e.prev,
     emitter |-> "none", text |-> <<>>, words |-> <<>>, i |-> 0, at |-> "none",
     sentenceBuffer |-> <<>>, fullResponse |-> <<>>, events |-> <<>>, settled |-> 0,
     timer |-> 0, result |-> <<>>, substitute |-> FALSE]

\* The client asks for the same generation again, once the last one resolved.
StreamAgain ==
    /\ em.pc = "resolved"
    /\ em.n < MaxEmissions
    /\ infer' = runTextGeneration(TRUE)
    /\ em' = Waiting(em)
    /\ nCalls' = nCalls + 1
    /\ UNCHANGED <<app, reinit, bm, sw, pf, window, supportedDevices, supportedBackends, currentBackend,
                   isInitialized, initPc, config, models, mediaPipeLLM, useMediaPipe,
                   mp, tasks, stack, ret, call, progress>>

----------------------------------------------------------------------------
(* formatPromptForModel and extractResponseFromModel.  A text is a sequence
   of tokens: a delimiter the code writes or looks for is one token, the
   words in them ("system", "user", ...) and the fixed system prompts are
   one token each, and the rest is characters. *)

MaxTokens == 3

\* Model names that select the families no identifier of the code selects.
Qwen == "Xenova/Qwen1.5-0.5B-Chat"
Phi == "Xenova/phi-1_5_dev"
Llama == "Xenova/llama2.c-stories15M"
DistilGPT2 == "Xenova/distilgpt2"

PromptModelNames == {TinyLlama, SmolLM17, Qwen, Phi, Gemma3, Llama, DistilGPT2, WhisperTiny}

\* The chain of tests of lines 627-645 and 652-698.
FamilyOf(modelName) ==
    LET model == toLowerCase(Chars(modelName))
        has(cs) == includes(model, cs)
    IN  IF has(<<"t","i","n","y","l","l","a","m","a">>) THEN "tinyllama"
        ELSE IF has(<<"s","m","o","l","l","m","2">>) \/ has(<<"s","m","o","l","m","l","2">>)
        THEN "smollm2"
        ELSE IF has(<<"q","w","e","n">>) THEN "qwen"
        ELSE IF has(<<"p","h","i">>) THEN "phi"
        ELSE IF has(<<"g","e","m","m","a">>) THEN "gemma"
        ELSE IF has(<<"l","l","a","m","a">>) THEN "llama"
        ELSE IF has(<<"g","p","t","2">>) \/ has(<<"d","i","s","t","i","l","g","p","t","2">>)
        THEN "gpt2"
        ELSE "generic"

\* String.prototype.split(separator) for a non-empty separator.
RECURSIVE splitOn(_, _)
splitOn(cs, sep) ==
    IF ~includes(cs, sep) THEN <<cs>>
    ELSE LET i == CHOOSE i \in 1..(Len(cs) - Len(sep) + 1) :
                      /\ SubSeq(cs, i, i + Len(sep) - 1) = sep
                      /\ \A j \in 1..(i - 1) : SubSeq(cs, j, j + Len(sep) - 1) # sep
         IN  <<SubSeq(cs, 1, i - 1)>> \o splitOn(SubSeq(cs, i + Len(sep), Len(cs)), sep)

\* response.split(sep)[0]
Before(cs, sep) == splitOn(cs, sep)[1]

\* A variant that never looks for the tag.
AfterTagMutKeepsAll(cs, tag) == cs

\* if (response.includes(tag)) response = response.split(tag)[1]
AfterTag(cs, tag) == IF includes(cs, tag) THEN splitOn(cs, tag)[2] ELSE cs

\* formatPromptForModel(prompt, modelName), lines 623-646.
formatPromptForModel(prompt, modelName) ==
    LET family == FamilyOf(modelName) IN
    CASE family = "tinyllama" ->
           <<"<|system|>", "\n", "You are a helpful AI assistant.", "<|user|>", "\n">>
           \o prompt \o <<"<|assistant|>", "\n">>
      [] family = "smollm2" ->
           <<"<|im_start|>", "user", "\n">> \o prompt
           \o <<"<|im_end|>", "\n", "<|im_start|>", "assistant", "\n">>
      [] family = "qwen" ->
           <<"<|im_start|>", "system", "\n", "You are a helpful assistant.", "<|im_end|>",
             "\n", "<|im_start|>", "user", "\n">> \o prompt
           \o <<"<|im_end|>", "\n", "<|im_start|>", "assistant", "\n">>
      [] family = "phi" ->
           <<"<|user|>", "\n">> \o prompt \o <<"<|end|>", "\n", "<|assistant|>", "\n">>
      [] family = "gemma" ->
           <<"<bos>", "<start_of_turn>", "system", "\n",
             "You are an intelligent voice assistant. ...", "<end_of_turn>", "\n",
             "<start_of_turn>", "user", "\n">> \o prompt
           \o <<"<end_of_turn>", "\n", "<start_of_turn>", "model", "\n">>
      [] family = "llama" ->
           <<"<s>", "[INST]", " ">> \o prompt \o <<" ", "[/INST]">>
      [] family \in {"gpt2", "generic"} ->
           <<"Human:", " ">> \o prompt \o <<"\n", "AI:">>

\* extractResponseFromModel(response, modelName), lines 648-699.
extractResponseFromModel(response, modelName) ==
    LET family == FamilyOf(modelName) IN
    CASE family = "tinyllama" ->
           trim(Before(Before(AfterTag(response, <<"<|assistant|>", "\n">>),
                              <<"<|user|>">>), <<"<|system|>">>))
      [] family = "smollm2" ->
           trim(Before(Before(Before(Before(
                    AfterTag(response, <<"<|im_start|>", "assistant", "\n">>),
                    <<"<|im_end|>">>), <<"<|im_start|>">>), <<"system", " ">>),
                    <<"user", " ">>))
      [] family = "qwen" ->
           trim(Before(AfterTag(response, <<"<|im_start|>", "assistant", "\n">>),
                       <<"<|im_end|>">>))
      [] family = "phi" ->
           trim(Before(AfterTag(response, <<"<|assistant|>", "\n">>), <<"<|end|>">>))
      [] family = "gemma" ->
           trim(Before(AfterTag(response, <<"<start_of_turn>", "model", "\n">>),
                       <<"<end_of_turn>">>))
      [] family = "llama" ->
           LET pieces == splitOn(response, <<"[/INST]">>)
           IN  trim(pieces[Len(pieces)])
      [] family \in {"gpt2", "generic"} ->
           trim(Before(Before(AfterTag(response, <<"AI:">>), <<"Human:">>),
                       <<"\n", "\n">>))

\* The strings the family's extraction looks for.
CutStrings(family) ==
    CASE family = "tinyllama" -> {<<"<|assistant|>", "\n">>, <<"<|user|>">>, <<"<|system|>">>}
      [] family = "smollm2" -> {<<"<|im_start|>", "assistant", "\n">>, <<"<|im_end|>">>,
                                <<"<|im_start|>">>, <<"system", " ">>, <<"user", " ">>}
      [] family = "qwen" -> {<<"<|im_start|>", "assistant", "\n">>, <<"<|im_end|>">>}
      [] family = "phi" -> {<<"<|assistant|>", "\n">>, <<"<|end|>">>}
      [] family = "gemma" -> {<<"<start_of_turn>", "model", "\n">>, <<"<end_of_turn>">>}
      [] family = "llama" -> {<<"[/INST]">>}
      [] family \in {"gpt2", "generic"} -> {<<"AI:">>, <<"Human:">>, <<"\n", "\n">>}

\* The tokens of the prompts and responses tried for a family: characters,
\* and the tokens its extraction looks for.
TokensOf(family) ==
    {"a", " ", "\n"} \cup
    CASE family = "tinyllama" -> {"<|user|>"}
      [] family = "smollm2" -> {"<|im_end|>", "system"}
      [] family = "qwen" -> {"<|im_end|>"}
      [] family = "phi" -> {"<|end|>"}
      [] family = "gemma" -> {"<end_of_turn>"}
      [] family = "llama" -> {"[/INST]"}
      [] family = "gpt2" -> {"AI:"}
      [] family = "generic" -> {"Human:"}

TextsOf(family, n) == UNION {[1..k -> TokensOf(family)] : k \in 0..n}

IdlePrompt == [pc |-> "idle"]

\* A prompt p for the model named m that the model will continue with r.
PromptInput(m, p, r) ==
    [pc |-> "prompt", modelName |-> m, prompt |-> p, response |-> r,
     formatted |-> <<>>, ofPrompt |-> <<>>, ofOutput |-> <<>>]

\* A prompt for a model, and the text the model will continue it with, of
\* MaxTokens tokens together at most.
PromptInputs ==
    UNION {UNION {{PromptInput(m, p, r) :
                      r \in TextsOf(FamilyOf(m), MaxTokens - Len(p))} :
                  p \in TextsOf(FamilyOf(m), MaxTokens)} :
           m \in PromptModelNames}

\* runTextGeneration line 469.
FormatPrompt ==
    /\ pf.pc = "prompt"
    /\ pf' = [pf EXCEPT !.pc = "formatted",
                        !.formatted = formatPromptForModel(pf.prompt, pf.modelName)]
    /\ UNCHANGED <<app, reinit, bm, sw, em, window, supportedDevices, supportedBackends, currentBackend,
                   isInitialized, initPc, config, models, mediaPipeLLM, useMediaPipe,
                   mp, tasks, stack, ret, call, progress, infer, nCalls>>

\* runTextGeneration line 487, on the text-generation pipeline's output (the
\* formatted prompt followed by the continuation), and on the formatted
\* prompt alone.
ExtractResponse ==
    /\ pf.pc = "formatted"
    /\ pf' = [pf EXCEPT !.pc = "extracted",
                        !.ofPrompt = extractResponseFromModel(pf.formatted, pf.modelName),
                        !.ofOutput = extractResponseFromModel(pf.formatted \o pf.response,
                                                              pf.modelName)]
    /\ UNCHANGED <<app, reinit, bm, sw, em, window, supportedDevices, supportedBackends, currentBackend,
                   isInitialized, initPc, config, models, mediaPipeLLM, useMediaPipe,
                   mp, tasks, stack, ret, call, progress, infer, nCalls>>

----------------------------------------------------------------------------
(* shouldUseMediaPipe and mapToMediaPipeModel, as functions of the identifier *)

\* Number of pieces an identifier is put together from.
MaxPieces == 3

\* Pieces of model identifiers: family names in several spellings and in
\* halves, the marker of the ONNX conversions, sizes and suffixes.
IdentifierPieces ==
    {<<"g","e","m","m","a">>, <<"G","e","m","m","a">>, <<"g","e","m">>, <<"m","a">>,
     <<"X","e","n","o","v","a","/">>, <<"l","l","a","m","a">>,
     <<"-","7","b">>, <<"7","B">>, <<"-","3","-","1","b">>, <<"-","i","t">>}

RECURSIVE Concat(_)
Concat(pieces) ==
    IF pieces = <<>> THEN <<>> ELSE Head(pieces) \o Concat(Tail(pieces))

Identifiers ==
    {Concat(ps) : ps \in UNION {[1..n -> IdentifierPieces] : n \in 0..MaxPieces}}
        \cup {Chars(id) : id \in ModelIds}

\* An identifier handed to the two methods, and this.useMediaPipe at the time.
RoutingInput(cs, flag) ==
    [pc |-> "identifier", id |-> cs, flag |-> flag, use |-> FALSE, mapped |-> ""]

RoutingInputs == {RoutingInput(cs, flag) : cs \in Identifiers, flag \in BOOLEAN}

\* loadModel line 148: shouldUseMediaPipe(config.modelName).
ShouldUseMediaPipe ==
    /\ pf.pc = "identifier"
    /\ pf' = [pf EXCEPT !.pc = "routed", !.use = shouldUseMediaPipeChars(pf.id, pf.flag)]
    /\ UNCHANGED <<app, reinit, bm, sw, em, window, supportedDevices, supportedBackends,
                   currentBackend, isInitialized, initPc, config, models, mediaPipeLLM,
                   useMediaPipe, mp, tasks, stack, ret, call, progress, infer, nCalls>>

\* loadMediaPipeModel line 272: mapToMediaPipeModel(modelName).
MapToMediaPipeModel ==
    /\ pf.pc = "routed"
    /\ pf' = [pf EXCEPT !.pc = "mapped", !.mapped = mapToMediaPipeModelChars(pf.id)]
    /\ UNCHANGED <<app, reinit, bm, sw, em, window, supportedDevices, supportedBackends,
                   currentBackend, isInitialized, initPc, config, models, mediaPipeLLM,
                   useMediaPipe, mp, tasks, stack, ret, call, progress, infer, nCalls>>

----------------------------------------------------------------------------
(* switchBackend and unloadModel of both managers *)

\* The backend names a client may pass.
BackendNames == {"webgpu", "wasm", "cpu", "mediapipe", "cloud-api", "cuda"}

MaxSwitches == 2

\* Array.prototype.includes on supportedBackends.
Supports(backends, b) == \E i \in 1..Len(backends) : backends[i] = b

\* ModelManager.unloadModel (lines 725-733): the entry is deleted only when
\* it has a truthy session.
unloadModel(handles, modelName) ==
    IF handles[modelName].present /\ handles[modelName].session
    THEN [handles EXCEPT ![modelName] = NoHandle]
    ELSE handles

\* The loop of lines 714-719 over every key of the registry.
RECURSIVE UnloadAll(_, _)
UnloadAll(handles, names) ==
    IF names = {} THEN handles
    ELSE LET modelName == CHOOSE n \in names : TRUE
         IN  UnloadAll(unloadModel(handles, modelName), names \ {modelName})

\* A variant that records the new backend before testing whether it is
\* supported.
switchBackendMutAssignFirst(newBackend) ==
    IF ~Supports(supportedBackends, newBackend)
    THEN [threw |-> TRUE, currentBackend |-> newBackend, models |-> models]
    ELSE [threw |-> FALSE, currentBackend |-> newBackend,
          models |-> UnloadAll(models, {k \in DOMAIN models : models[k].present})]

\* ModelManager.switchBackend (lines 706-723): what the call leaves.
switchBackend(newBackend) ==
    IF ~Supports(supportedBackends, newBackend)
    THEN [threw |-> TRUE, currentBackend |-> currentBackend, models |-> models]
    ELSE [threw |-> FALSE, currentBackend |-> newBackend,
          models |-> UnloadAll(models, {k \in DOMAIN models : models[k].present})]

\* PollinationsModelManager.switchBackend (audio-processor.js 676-683): only
\* 'cloud-api' is accepted, and nothing is written.
pollinationsSwitchBackend(newBackend) ==
    [threw |-> newBackend # "cloud-api", currentBackend |-> currentBackend,
     models |-> models]

\* A client calls switchBackend(newBackend).  The method awaits nothing, so
\* the whole call runs in one turn, between any two events of a load.
SwitchBackend(newBackend) ==
    /\ Quiescent
    /\ sw.callNo < MaxSwitches
    /\ LET r == IF app = "ModelManager" THEN switchBackend(newBackend)
                                        ELSE pollinationsSwitchBackend(newBackend)
       IN  /\ currentBackend' = r.currentBackend
           /\ models' = r.models
           /\ sw' = [callNo |-> sw.callNo + 1, newBackend |-> newBackend,
                     status |-> IF r.threw THEN "rejected" ELSE "resolved"]
    /\ UNCHANGED <<app, reinit, bm, em, pf, window, supportedDevices, supportedBackends,
                   isInitialized, initPc, config, mediaPipeLLM, useMediaPipe,
                   mp, tasks, stack, ret, call, progress, infer, nCalls>>

----------------------------------------------------------------------------
(* benchmarkModel of both managers *)

\* Number of iterations asked for, and the longest duration, in units of the
\* clock's resolution.
MaxIterations == 3
MaxDuration == 2

Durations == 0..MaxDuration

\* The keys a client may pass to benchmarkModel.
BenchKeys == {"whisper", "textgen", "phi3", "tts"}

RECURSIVE SumOf(_)
SumOf(seq) == IF seq = <<>> THEN 0 ELSE Head(seq) + SumOf(Tail(seq))

\* Math.min(...times) and Math.max(...times).
MinOf(seq) ==
    IF seq = <<>> THEN "Infinity"
    ELSE CHOOSE x \in {seq[i] : i \in DOMAIN seq} : \A i \in DOMAIN seq : x <= seq[i]
MaxOf(seq) ==
    IF seq = <<>> THEN "-Infinity"
    ELSE CHOOSE x \in {seq[i] : i \in DOMAIN seq} : \A i \in DOMAIN seq : x >= seq[i]

\* Lines 791-803: the aggregates over the samples.  The average is kept as the
\* fraction num/den; 0/0 is NaN.
benchmarkResult(b) ==
    [averageTime |-> IF b.times = <<>> THEN "NaN"
                     ELSE [num |-> SumOf(b.times), den |-> Len(b.times)],
     minTime |-> MinOf(b.times), maxTime |-> MaxOf(b.times),
     times |-> b.times, iterations |-> b.iterations]

\* The inference method the loop calls for a key (lines 774-781,
\* audio-processor.js 727-733): none for any other key.
BenchInvokes(key) ==
    IF key = "whisper" THEN "whisper"
    ELSE IF app = "ModelManager" /\ key = "phi3" THEN "textgen"
    ELSE IF app = "PollinationsModelManager" /\ key = "textgen" THEN "textgen"
    ELSE "none"

\* The loop of lines 770-789 from iteration b.i on, up to its next await on a
\* pending inference or to the return.  ds are the durations measured in the
\* iterations that call no inference method.
RECURSIVE benchmarkLoop(_, _, _)
benchmarkLoop(b, inf, ds) ==
    IF b.i = b.iterations
    THEN [bm |-> [b EXCEPT !.pc = "resolved", !.result = benchmarkResult(b)], infer |-> inf]
    ELSE IF BenchInvokes(b.key) = "none"
    THEN benchmarkLoop([b EXCEPT !.i = @ + 1, !.times = Append(@, ds[b.i + 1])], inf, ds)
    ELSE LET r  == IF BenchInvokes(b.key) = "whisper" THEN runWhisperInference(TRUE)
                                                      ELSE runTextGeneration(FALSE)
             b1 == [b EXCEPT !.invoked = @ + 1, !.log = Append(@, <<"start", b.i>>)]
         IN  IF r.status = "rejected"
             THEN \* the method threw before its first await: lines 786-788
                  benchmarkLoop([b1 EXCEPT !.i = @ + 1, !.failed = @ + 1,
                                           !.log = Append(@, <<"settle", b.i>>)], r, ds)
             ELSE [bm |-> b1, infer |-> r]

\* A client calls benchmarkModel(key, iterations) while no other call is in
\* flight (lines 762-770); one call is followed.
StartBenchmark(key, iterations, ds) ==
    /\ bm.pc = "idle"
    /\ infer.status # "running"
    /\ Quiescent
    /\ \A s \in Slots : stack[s] = <<>>
    /\ Len(ds) = (IF BenchInvokes(key) = "none" THEN iterations ELSE 0)
    /\ LET b == [pc |-> "running", n |-> bm.n + 1, key |-> key, iterations |-> iterations,
                 i |-> 0, invoked |-> 0, failed |-> 0, times |-> <<>>, log |-> <<>>,
                 result |-> <<>>]
       IN  IF key \notin DOMAIN models \/ ~models[key].present \/ ~models[key].loaded
           THEN /\ bm' = [b EXCEPT !.pc = "rejected"]
                /\ infer' = infer
           ELSE LET r == benchmarkLoop(b, infer, ds)
                IN  bm' = r.bm /\ infer' = r.infer
    /\ UNCHANGED <<app, reinit, sw, em, pf, window, supportedDevices, supportedBackends,
                   currentBackend, isInitialized, initPc, config, models, mediaPipeLLM,
                   useMediaPipe, mp, tasks, stack, ret, call, progress, nCalls>>

\* Variant: the duration is pushed whether or not the inference threw.
BenchmarkSettlesMutCountsFailures(ok, d) ==
    /\ bm.pc = "running"
    /\ infer.status = "running"
    /\ Quiescent
    /\ infer.invoked = 0 => ok
    /\ LET threw == ~ok /\ ~(app = "PollinationsModelManager" /\ infer.op = "textgen")
           inf   == [infer EXCEPT !.status = IF threw THEN "rejected" ELSE "resolved",
                                  !.failed = ~ok]
           b1    == [bm EXCEPT !.i = @ + 1,
                               !.log = Append(@, <<"settle", bm.i>>),
                               !.failed = IF threw THEN @ + 1 ELSE @,
                               !.times = Append(@, d)]
           r     == benchmarkLoop(b1, inf, <<>>)
       IN  bm' = r.bm /\ infer' = r.infer
    /\ UNCHANGED <<app, reinit, sw, em, pf, window, supportedDevices, supportedBackends,
                   currentBackend, isInitialized, initPc, config, models, mediaPipeLLM,
                   useMediaPipe, mp, tasks, stack, ret, call, progress, nCalls>>

\* The inference the loop awaits settles after d clock units: lines 783-788,
\* then the loop goes on.  PollinationsModelManager.runTextGeneration returns
\* a canned response where its fetch fails (audio-processor.js 624-635).
BenchmarkSettles(ok, d) ==
    /\ bm.pc = "running"
    /\ infer.status = "running"
    /\ Quiescent
    /\ infer.invoked = 0 => ok
    /\ LET threw == ~ok /\ ~(app = "PollinationsModelManager" /\ infer.op = "textgen")
           inf   == [infer EXCEPT !.status = IF threw THEN "rejected" ELSE "resolved",
                                  !.failed = ~ok]
           b1    == [bm EXCEPT !.i = @ + 1,
                               !.log = Append(@, <<"settle", bm.i>>),
                               !.failed = IF threw THEN @ + 1 ELSE @,
                               !.times = IF threw THEN @ ELSE Append(@, d)]
           r     == benchmarkLoop(b1, inf, <<>>)
       IN  bm' = r.bm /\ infer' = r.infer
    /\ UNCHANGED <<app, reinit, sw, em, pf, window, supportedDevices, supportedBackends,
                   currentBackend, isInitialized, initPc, config, models, mediaPipeLLM,
                   useMediaPipe, mp, tasks, stack, ret, call, progress, nCalls>>

----------------------------------------------------------------------------
(* The specification *)

\* window.selectedModel (undefined selects the default of line 17).
SelectableModels == {TinyLlama, Gemma3, Gemma7, XenovaGemma}

\* The host environments.  window.LlmInference only matters where the
\* MediaPipeLLM class is defined, and the selected backend only where the
\* library is there too: in every other environment initializeMediaPipe
\* clears useMediaPipe (lines 120-136) before anything reads it.
Windows ==
    {w \in [WebAssembly : BOOLEAN, gpu : BOOLEAN, MediaPipeLLM : BOOLEAN,
            LlmInference : BOOLEAN, selectedModel : SelectableModels,
            selectedBackend : {"mediapipe", "undefined"}] :
        /\ w.LlmInference => w.MediaPipeLLM
        /\ w.selectedBackend = "mediapipe" => w.LlmInference}

\* PollinationsModelManager reads nothing of the host environment.
NoWindow ==
    [WebAssembly |-> FALSE, gpu |-> FALSE, MediaPipeLLM |-> FALSE, LlmInference |-> FALSE,
     selectedModel |-> TinyLlama, selectedBackend |-> "undefined"]

\* The state PollinationsModelManager's constructor leaves
\* (audio-processor.js 390-414).
InitPollinations ==
    /\ app = "PollinationsModelManager"
    /\ window = NoWindow
    /\ supportedDevices = <<>>
    /\ supportedBackends = <<"cloud-api">>
    /\ currentBackend = "cloud-api"
    /\ isInitialized = FALSE
    /\ initPc = "idle"
    /\ config = [textGeneration |-> [model |-> "openai"]]
    /\ models = [k \in PollinationsKeys |-> NoHandle]
    /\ mediaPipeLLM = FALSE
    /\ useMediaPipe = FALSE
    /\ mp = FreshMediaPipe
    /\ tasks = {}
    /\ stack = [s \in OneCall |-> <<>>]
    /\ ret = [s \in OneCall |-> NoRet]
    /\ call = [s \in OneCall |-> IdleCall]
    /\ progress = [s \in OneCall |-> NoProgress]
    /\ infer = IdleInfer
    /\ sw = IdleSwitch
    /\ em = IdleEmitter
    /\ pf = IdlePrompt
    /\ reinit = IdleReinit
    /\ bm = IdleBench
    /\ nCalls = 0

\* The state ModelManager's constructor leaves (lines 7-32).
InitModelManager ==
    /\ app = "ModelManager"
    /\ window \in Windows
    /\ supportedDevices = <<>>
    /\ supportedBackends = <<>>
    /\ currentBackend = "null"
    /\ isInitialized = FALSE
    /\ initPc = "idle"
    /\ config = [k \in Keys |->
                   IF k = "whisper"
                   THEN [modelName |-> WhisperTiny, task |-> "automatic-speech-recognition",
                         device |-> "webgpu", dtype |-> "fp16"]
                   ELSE [modelName |-> window.selectedModel, task |-> "text-generation",
                         device |-> "webgpu", dtype |-> "q4"]]
    /\ models = [k \in Keys |-> NoHandle]
    /\ mediaPipeLLM = FALSE
    /\ useMediaPipe = (window.selectedBackend = "mediapipe")
    /\ mp = FreshMediaPipe
    /\ tasks = {}
    /\ stack = [s \in OneCall |-> <<>>]
    /\ ret = [s \in OneCall |-> NoRet]
    /\ call = [s \in OneCall |-> IdleCall]
    /\ progress = [s \in OneCall |-> NoProgress]
    /\ infer = IdleInfer
    /\ sw = IdleSwitch
    /\ em = IdleEmitter
    /\ pf = IdlePrompt
    /\ reinit = IdleReinit
    /\ bm = IdleBench
    /\ nCalls = 0

Init == InitModelManager \/ InitPollinations

Next ==
    \/ Initialize
    \/ \E outcome \in {"adapter", "null", "reject"} : AdapterSettles(outcome)
    \/ \E s \in Slots, key \in CallKeys : StartLoadModel(s, key)
    \/ \E s \in Slots, ok \in BOOLEAN : PipelineSettles(s, ok)
    \/ \E s \in Slots : Continue(s)
    \/ \E s \in Slots : MediaPipeCatch(s)
    \/ \E t \in tasks, ok \in BOOLEAN : CreateFromOptionsSettles(t, ok)
    \/ \E t \in tasks : ManagerInitTimeout(t)
    \/ \E t \in tasks : MediaPipeInitTimeout(t)
    \/ \E t \in tasks : DownloadDone(t)
    \/ \E t \in tasks, ok \in BOOLEAN : SetOptionsSettles(t, ok)
    \/ \E t \in tasks : ModelLoadTimeout(t)
    \/ PollinationsInitialize
    \/ \E ok \in BOOLEAN : ConnectivitySettles(ok)
    \/ \E s \in Slots, key \in PollinationsKeys \cup {"phi3"} : PollinationsLoadModel(s, key)
    \/ \E s \in Slots : PollinationsLoadTimer(s)
    \/ \E op \in Keys, stream \in BOOLEAN, audioOk \in BOOLEAN :
           StartInference(op, stream, audioOk)
    \/ \E ok \in BOOLEAN, words \in Responses : InferenceSettles(ok, words)

Spec == Init /\ [][Next]_vars

----------------------------------------------------------------------------
(* Loading and switching backends, in the environments without the
   MediaPipe library *)

InitBackend ==
    /\ Init
    /\ ~window.LlmInference
    /\ window.selectedModel = TinyLlama

NextBackend ==
    \/ Initialize
    \/ \E outcome \in {"adapter", "null", "reject"} : AdapterSettles(outcome)
    \/ \E s \in Slots, key \in Keys : StartLoadModel(s, key)
    \/ \E s \in Slots, ok \in BOOLEAN : PipelineSettles(s, ok)
    \/ \E s \in Slots : Continue(s)
    \/ PollinationsInitialize
    \/ \E ok \in BOOLEAN : ConnectivitySettles(ok)
    \/ \E s \in Slots, key \in PollinationsKeys : PollinationsLoadModel(s, key)
    \/ \E s \in Slots : PollinationsLoadTimer(s)
    \/ \E newBackend \in BackendNames : SwitchBackend(newBackend)

SpecBackend == InitBackend /\ [][NextBackend]_vars

----------------------------------------------------------------------------
(* The status readers *)

\* getModelStatus(modelName): lines 735-743, audio-processor.js 692-702.
getModelStatus(modelName) ==
    LET has == modelName \in DOMAIN models /\ models[modelName].present IN
    IF app = "ModelManager"
    THEN [loaded  |-> IF has THEN models[modelName].loaded ELSE FALSE,
          backend |-> IF has THEN models[modelName].backend ELSE "null",
          config  |-> IF modelName \in DOMAIN config THEN <<config[modelName]>> ELSE <<>>]
    ELSE [loaded  |-> IF has THEN models[modelName].loaded ELSE FALSE,
          backend |-> "cloud-api",
          config  |-> <<config>>]

\* The names getAllModelsStatus reports on: Object.keys(this.config) at line
\* 747, the literal list of audio-processor.js line 706.
StatusNames == IF app = "ModelManager" THEN DOMAIN config ELSE PollinationsKeys

\* getAllModelsStatus(): lines 745-760, audio-processor.js 704-712.
getAllModelsStatus ==
    [status |-> [modelName \in StatusNames |-> getModelStatus(modelName)],
     currentBackend |-> currentBackend,
     supportedBackends |-> supportedBackends,
     usingMediaPipe |-> IF app = "ModelManager" THEN <<useMediaPipe>> ELSE <<>>]

\* A client reads the status of one name: the method awaits nothing.
GetModelStatus(modelName) ==
    /\ Quiescent
    /\ pf' = [pc |-> "status", modelName |-> modelName, status |-> getModelStatus(modelName)]
    /\ UNCHANGED <<app, reinit, bm, sw, em, window, supportedDevices, supportedBackends,
                   currentBackend, isInitialized, initPc, config, models, mediaPipeLLM,
                   useMediaPipe, mp, tasks, stack, ret, call, progress, infer, nCalls>>

GetAllModelsStatus ==
    /\ Quiescent
    /\ pf' = [pc |-> "allStatus", all |-> getAllModelsStatus]
    /\ UNCHANGED <<app, reinit, bm, sw, em, window, supportedDevices, supportedBackends,
                   currentBackend, isInitialized, initPc, config, models, mediaPipeLLM,
                   useMediaPipe, mp, tasks, stack, ret, call, progress, infer, nCalls>>

----------------------------------------------------------------------------
(* The ONNX fallbacks of a Gemma selection, in the environments where the
   MediaPipe library is missing: loadMediaPipeModel fails at once and its
   catch block walks the fallback list *)

InitFallback ==
    /\ InitModelManager
    /\ ~window.LlmInference
    /\ window.selectedModel \in {Gemma3, Gemma7}

NextFallback ==
    \/ Initialize
    \/ \E outcome \in {"adapter", "null", "reject"} : AdapterSettles(outcome)
    \/ \E s \in Slots, key \in Keys : StartLoadModel(s, key)
    \/ \E s \in Slots, ok \in BOOLEAN : PipelineSettles(s, ok)
    \/ \E s \in Slots : Continue(s)
    \/ \E s \in Slots : MediaPipeCatch(s)
    \/ \E newBackend \in BackendNames : SwitchBackend(newBackend)

SpecFallback == InitFallback /\ [][NextFallback]_vars

----------------------------------------------------------------------------
(* Two loadModel('textgen') calls that may overlap, on a manager that
   initialize() has left in a host with WebAssembly, without WebGPU and
   without the MediaPipe library *)

InitOverlap ==
    /\ app = "ModelManager"
    /\ window \in {w \in Windows : w.WebAssembly /\ ~w.gpu /\ ~w.LlmInference}
    /\ supportedDevices = <<"wasm", "cpu">>
    /\ supportedBackends = IF window.MediaPipeLLM THEN <<"wasm", "cpu", "mediapipe">>
                                                  ELSE <<"wasm", "cpu">>
    /\ currentBackend = "wasm"
    /\ isInitialized = TRUE
    /\ initPc = "done"
    /\ config = [k \in Keys |->
                   IF k = "whisper"
                   THEN [modelName |-> WhisperTiny, task |-> "automatic-speech-recognition",
                         device |-> "wasm", dtype |-> "fp16"]
                   ELSE [modelName |-> window.selectedModel, task |-> "text-generation",
                         device |-> "wasm", dtype |-> "q4"]]
    /\ models = [k \in Keys |-> NoHandle]
    /\ mediaPipeLLM = FALSE
    /\ useMediaPipe = FALSE
    /\ mp = FreshMediaPipe
    /\ tasks = {}
    /\ stack = [s \in TwoCalls |-> <<>>]
    /\ ret = [s \in TwoCalls |-> NoRet]
    /\ call = [s \in TwoCalls |-> IdleCall]
    /\ progress = [s \in TwoCalls |-> NoProgress]
    /\ infer = IdleInfer
    /\ sw = IdleSwitch
    /\ em = IdleEmitter
    /\ pf = IdlePrompt
    /\ reinit = IdleReinit
    /\ bm = IdleBench
    /\ nCalls = 0

NextOverlap ==
    \/ \E s \in Slots : StartLoadModel(s, "textgen")
    \/ \E s \in Slots, ok \in BOOLEAN : PipelineSettles(s, ok)
    \/ \E s \in Slots : Continue(s)
    \/ \E s \in Slots : MediaPipeCatch(s)

SpecOverlap == InitOverlap /\ [][NextOverlap]_vars

----------------------------------------------------------------------------
(* cleanup() of ModelManager and of MediaPipeLLM, among loads in flight *)

\* The pending llmInference.close() of MediaPipeLLM.cleanup (line 406).
CloseTask ==
    [kind |-> "close", phase |-> "close", waiter |-> "none", modelId |-> "",
     cb |-> "none", callNo |-> 0, wrap |-> 0]

\* MediaPipeLLM.cleanup lines 410-411.
MediaPipeReset(w) ==
    [w EXCEPT !.mp.isInitialized = FALSE, !.mp.currentModel = "null"]

\* MediaPipeLLM.cleanup (mediapipe-llm.js 403-418) up to its await: with an
\* inference object it calls close() and waits, without one it resets its
\* fields at once.
MediaPipeCleanup(w) ==
    IF w.mp.llmInference
    THEN [w EXCEPT !.tasks = @ \cup {CloseTask}]
    ELSE MediaPipeReset(w)

\* ModelManager.cleanup (lines 806-819): unloadModel over every key of the
\* registry, then the MediaPipe instance is told to clean up, without
\* awaiting it, and the reference is dropped.
Cleanup ==
    /\ Quiescent
    /\ app = "ModelManager"
    /\ LET w0 == [World EXCEPT
                    !.models = UnloadAll(models, {k \in DOMAIN models : models[k].present})]
       IN  IF mediaPipeLLM
           THEN Commit([MediaPipeCleanup(w0) EXCEPT !.mediaPipeLLM = FALSE])
           ELSE Commit(w0)
    /\ UNCHANGED <<app, reinit, bm, sw, em, pf, window, supportedDevices, supportedBackends,
                   currentBackend, isInitialized, initPc, infer, nCalls>>

\* llmInference.close() settles: lines 407-411 when it resolved, the catch of
\* lines 414-416 when it rejected.
CloseSettles(t, ok) ==
    /\ Quiescent
    /\ t \in tasks
    /\ t.kind = "close"
    /\ LET w0 == [World EXCEPT !.tasks = @ \ {t}]
       IN  IF ok THEN Commit(MediaPipeReset([w0 EXCEPT !.mp.llmInference = FALSE]))
                 ELSE Commit(w0)
    /\ UNCHANGED <<app, reinit, bm, sw, em, pf, window, supportedDevices, supportedBackends,
                   currentBackend, isInitialized, initPc, infer, nCalls>>

\* A manager in a host with the MediaPipe library and a Gemma selection.
InitCleanup ==
    /\ InitModelManager
    /\ window.LlmInference
    /\ window.WebAssembly
    /\ window.selectedModel \in {Gemma3, TinyLlama}

NextCleanup ==
    \/ Initialize
    \/ \E outcome \in {"adapter", "null", "reject"} : AdapterSettles(outcome)
    \/ \E s \in Slots, key \in Keys : StartLoadModel(s, key)
    \/ \E s \in Slots, ok \in BOOLEAN : PipelineSettles(s, ok)
    \/ \E s \in Slots : Continue(s)
    \/ \E s \in Slots : MediaPipeCatch(s)
    \/ \E t \in tasks, ok \in BOOLEAN : CreateFromOptionsSettles(t, ok)
    \/ \E t \in tasks : ManagerInitTimeout(t)
    \/ \E t \in tasks : MediaPipeInitTimeout(t)
    \/ \E t \in tasks : DownloadDone(t)
    \/ \E t \in tasks, ok \in BOOLEAN : SetOptionsSettles(t, ok)
    \/ \E t \in tasks : ModelLoadTimeout(t)
    \/ Cleanup
    \/ \E t \in tasks, ok \in BOOLEAN : CloseSettles(t, ok)

SpecCleanup == InitCleanup /\ [][NextCleanup]_vars

----------------------------------------------------------------------------
(* Benchmarks, on managers with some of their handles loaded *)

\* ModelManager in a host with WebAssembly and no WebGPU, after the loads of
\* the given keys.
BenchManager(loaded) ==
    /\ app = "ModelManager"
    /\ window = [WebAssembly |-> TRUE, gpu |-> FALSE, MediaPipeLLM |-> FALSE,
                 LlmInference |-> FALSE, selectedModel |-> TinyLlama,
                 selectedBackend |-> "undefined"]
    /\ supportedDevices = <<"wasm", "cpu">>
    /\ supportedBackends = <<"wasm", "cpu">>
    /\ currentBackend = "wasm"
    /\ config = [whisper |-> [modelName |-> WhisperTiny,
                              task |-> "automatic-speech-recognition",
                              device |-> "wasm", dtype |-> "fp16"],
                 textgen |-> [modelName |-> TinyLlama, task |-> "text-generation",
                              device |-> "wasm", dtype |-> "q4"]]
    /\ models = [k \in Keys |->
                   IF k \in loaded
                   THEN [present |-> TRUE, loaded |-> TRUE, backend |-> "onnx",
                         device |-> "wasm",
                         path |-> IF k = "whisper" THEN WhisperTiny ELSE TinyLlama,
                         session |-> FALSE]
                   ELSE NoHandle]

\* PollinationsModelManager after the loads of the given keys.
BenchPollinations(loaded) ==
    /\ app = "PollinationsModelManager"
    /\ window = NoWindow
    /\ supportedDevices = <<>>
    /\ supportedBackends = <<"cloud-api">>
    /\ currentBackend = "cloud-api"
    /\ config = [textGeneration |-> [model |-> "openai"]]
    /\ models = [k \in PollinationsKeys |->
                   IF k \in loaded
                   THEN [present |-> TRUE, loaded |-> TRUE,
                         backend |-> IF k = "textgen" THEN "pollinations"
                                                      ELSE "web-speech-api",
                         device |-> "cloud-api", path |-> "none", session |-> FALSE]
                   ELSE NoHandle]

InitBench ==
    /\ \/ \E loaded \in SUBSET Keys : BenchManager(loaded)
       \/ \E loaded \in SUBSET PollinationsKeys : BenchPollinations(loaded)
    /\ mediaPipeLLM = FALSE
    /\ useMediaPipe = FALSE
    /\ mp = FreshMediaPipe
    /\ isInitialized = TRUE
    /\ initPc = "done"
    /\ tasks = {}
    /\ stack = [s \in OneCall |-> <<>>]
    /\ ret = [s \in OneCall |-> NoRet]
    /\ call = [s \in OneCall |-> IdleCall]
    /\ progress = [s \in OneCall |-> NoProgress]
    /\ infer = IdleInfer
    /\ sw = IdleSwitch
    /\ em = IdleEmitter
    /\ pf = IdlePrompt
    /\ reinit = IdleReinit
    /\ bm = IdleBench
    /\ nCalls = 1

NextBench ==
    \/ \E key \in BenchKeys, iterations \in 0..MaxIterations,
          ds \in UNION {[1..n -> Durations] : n \in 0..MaxIterations} :
              StartBenchmark(key, iterations, ds)
    \/ \E ok \in BOOLEAN, d \in Durations : BenchmarkSettles(ok, d)

SpecBench == InitBench /\ [][NextBench]_vars

----------------------------------------------------------------------------
(* initialize() called again, between loads and backend switches *)

InitReinit ==
    /\ InitBackend
    /\ app = "ModelManager"

NextReinit ==
    \/ Initialize
    \/ \E outcome \in {"adapter", "null", "reject"} : AdapterSettles(outcome)
    \/ \E s \in Slots, key \in Keys : StartLoadModel(s, key)
    \/ \E s \in Slots, ok \in BOOLEAN : PipelineSettles(s, ok)
    \/ \E s \in Slots : Continue(s)
    \/ \E newBackend \in BackendNames : SwitchBackend(newBackend)
    \/ Reinitialize

SpecReinit == InitReinit /\ [][NextReinit]_vars

----------------------------------------------------------------------------
(* Streaming generation on a loaded text-generation handle *)

\* ModelManager, initialised in a host with WebAssembly and no WebGPU.
StreamingManager(selectedModel, library) ==
    /\ app = "ModelManager"
    /\ window = [WebAssembly |-> TRUE, gpu |-> FALSE, MediaPipeLLM |-> library,
                 LlmInference |-> library, selectedModel |-> selectedModel,
                 selectedBackend |-> IF library THEN "mediapipe" ELSE "undefined"]
    /\ supportedDevices = <<"wasm", "cpu">>
    /\ supportedBackends = IF library THEN <<"wasm", "cpu", "mediapipe">>
                                      ELSE <<"wasm", "cpu">>
    /\ currentBackend = "wasm"
    /\ config = [whisper |-> [modelName |-> WhisperTiny,
                              task |-> "automatic-speech-recognition",
                              device |-> "wasm", dtype |-> "fp16"],
                 textgen |-> [modelName |-> selectedModel, task |-> "text-generation",
                              device |-> "wasm", dtype |-> "q4"]]
    /\ mediaPipeLLM = library
    /\ useMediaPipe = library
    /\ mp = IF library
            THEN [isInitialized |-> TRUE, llmInference |-> TRUE,
                  currentModel |-> mapToMediaPipeModel(selectedModel)]
            ELSE FreshMediaPipe
    /\ models = [k \in Keys |->
                   IF k = "whisper" THEN NoHandle
                   ELSE IF library
                   THEN [present |-> TRUE, loaded |-> TRUE, backend |-> "mediapipe",
                         device |-> "mediapipe",
                         path |-> mapToMediaPipeModel(selectedModel), session |-> FALSE]
                   ELSE [present |-> TRUE, loaded |-> TRUE, backend |-> "onnx",
                         device |-> "wasm", path |-> selectedModel, session |-> FALSE]]

\* PollinationsModelManager with its text generation registered.
StreamingPollinations ==
    /\ app = "PollinationsModelManager"
    /\ window = NoWindow
    /\ supportedDevices = <<>>
    /\ supportedBackends = <<"cloud-api">>
    /\ currentBackend = "cloud-api"
    /\ config = [textGeneration |-> [model |-> "openai"]]
    /\ mediaPipeLLM = FALSE
    /\ useMediaPipe = FALSE
    /\ mp = FreshMediaPipe
    /\ models = [k \in PollinationsKeys |->
                   IF k = "textgen"
                   THEN [present |-> TRUE, loaded |-> TRUE, backend |-> "pollinations",
                         device |-> "cloud-api", path |-> "none", session |-> FALSE]
                   ELSE NoHandle]

\* The states in which the first streaming request has just been made: the
\* manager is initialised, textgen was loaded by the one call before, and the
\* backend call is in flight.
InitStream ==
    /\ \/ StreamingManager(TinyLlama, FALSE)
       \/ StreamingManager(Gemma3, TRUE)
       \/ StreamingManager(Gemma7, TRUE)
       \/ StreamingPollinations
    /\ isInitialized = TRUE
    /\ initPc = "done"
    /\ tasks = {}
    /\ stack = [s \in OneCall |-> <<>>]
    /\ ret = [s \in OneCall |-> NoRet]
    /\ call = [s \in OneCall |-> IdleCall]
    /\ progress = [s \in OneCall |-> NoProgress]
    /\ infer = Running("textgen", TRUE, 1)
    /\ sw = IdleSwitch
    /\ em = Waiting(IdleEmitter)
    /\ pf = IdlePrompt
    /\ reinit = IdleReinit
    /\ bm = IdleBench
    /\ nCalls = 2

NextStream ==
    \/ \E raw \in RawTexts : BackendResolves(raw)
    \/ \E ok \in BOOLEAN : CallbackSettles(ok)
    \/ DelayElapses
    \/ StreamAgain

SpecStream == InitStream /\ [][NextStream]_vars

----------------------------------------------------------------------------
(* Inference, benchmark and status requests on managers with some of their
   handles loaded *)

InitReaders ==
    /\ \/ InitBench
       \/ /\ StreamingManager(Gemma3, TRUE)
          /\ isInitialized = TRUE
          /\ initPc = "done"
          /\ tasks = {}
          /\ stack = [s \in OneCall |-> <<>>]
          /\ ret = [s \in OneCall |-> NoRet]
          /\ call = [s \in OneCall |-> IdleCall]
          /\ progress = [s \in OneCall |-> NoProgress]
          /\ infer = IdleInfer
          /\ sw = IdleSwitch
          /\ em = IdleEmitter
          /\ pf = IdlePrompt
          /\ reinit = IdleReinit
          /\ bm = IdleBench
          /\ nCalls = 1

\* The benchmarks here run at most one iteration: the loop itself is the
\* subject of SpecBench.
NextReaders ==
    \/ \E op \in Keys, stream \in BOOLEAN, audioOk \in BOOLEAN :
           StartInference(op, stream, audioOk)
    \/ \E ok \in BOOLEAN, words \in Responses :
           bm.pc # "running" /\ InferenceSettles(ok, words)
    \/ \E key \in BenchKeys, iterations \in 0..1,
          ds \in {<<>>} \cup {<<d>> : d \in Durations} :
              StartBenchmark(key, iterations, ds)
    \/ \E ok \in BOOLEAN, d \in Durations : BenchmarkSettles(ok, d)
    \/ \E modelName \in PollinationsKeys \cup {"phi3"} :
           pf.pc = "idle" /\ GetModelStatus(modelName)
    \/ pf.pc = "idle" /\ GetAllModelsStatus

SpecReaders == InitReaders /\ [][NextReaders]_vars

----------------------------------------------------------------------------
(* The ModelManager of model-manager.js: its loadModel and loadMediaPipeModel
   (lines 117-264), on a manager that initialize() has left *)

MaxDepth == 2

\* mapToMediaPipeModel of model-manager.js (lines 266-280).
legacyMapToMediaPipeModel(modelName) ==
    LET modelLower == toLowerCase(Chars(modelName)) IN
    IF \/ includes(modelLower, <<"g","e","m","m","a","-","7","b">>)
       \/ includes(modelLower, <<"g","e","m","m","a","7","b">>)
    THEN "gemma-7b-it" ELSE "gemma-2b-it"

\* The frame the call is waiting in.  i counts the loadModel invocations
\* that await this one, exactly up to MaxDepth and by its parity beyond: each
\* of them only hands the result on (return await at line 126, return at
\* lines 195 and 262), and its catch finds the device already downgraded.
LegacyFrame(pc, depth) ==
    [Frame("loadModel", pc, "textgen", 0)
        EXCEPT !.i = IF depth > MaxDepth + 1 THEN MaxDepth ELSE depth]

LegacySettle(w, s, ok, err) ==
    [w EXCEPT !.stack[s] = <<>>,
              !.call[s].status = IF ok THEN "resolved" ELSE "rejected",
              !.call[s].err = err]

\* loadModel lines 129-173, the ONNX branch up to the pipeline() call.
LegacyPipelineEnter(w, s, modelName, depth) ==
    LET cfg == w.config[modelName]
        deviceToUse == DeviceToUse(cfg.modelName, cfg.device)
        modelPath   == ModelPath(cfg.modelName)
        f == [LegacyFrame("pipeline", depth) EXCEPT !.key = modelName, !.path = modelPath,
                                                    !.dev = deviceToUse]
        w1 == Report([w EXCEPT !.stack[s] = <<f>>], s, 0, 0)
    IN  [w1 EXCEPT !.call[s].loads = Append(@, [id |-> modelPath, dev |-> deviceToUse])]

\* loadMediaPipeModel lines 231-244, with this.mediaPipeLLM there.
LegacyMediaPipeEnter(w, s, modelName, depth) ==
    LET w1 == Report(w, s, 0, 0)
        pc == IF w.mp.isInitialized THEN "mpLoad" ELSE "mpInit"
    IN  [w1 EXCEPT !.stack[s] = <<[LegacyFrame(pc, depth) EXCEPT !.name = modelName]>>]

\* loadModel lines 117-127.  Where this.mediaPipeLLM is null the throw of line
\* 208, the catch of lines 255-262 and the loadModel it calls all run in the
\* same turn: for an identifier that is routed to MediaPipe whatever the flag
\* says, that recursion has no await in it and ends when the call stack is
\* exhausted, the RangeError rejecting every pending invocation.
LegacyLoadModel(w, s, modelName, depth) ==
    LET cfg == w.config[modelName] IN
    IF modelName = "textgen" /\ shouldUseMediaPipe(cfg.modelName, w.useMediaPipe)
    THEN IF w.mediaPipeLLM
         THEN LegacyMediaPipeEnter(w, s, cfg.modelName, depth + 1)
         ELSE LET w1 == [Report(w, s, 0, 0 - 1) EXCEPT !.useMediaPipe = FALSE,
                                                      !.call[s].mpFailed = TRUE]
              IN  IF shouldUseMediaPipe(cfg.modelName, FALSE)
                  THEN LegacySettle(w1, s, FALSE, Err("RangeError", "call stack"))
                  ELSE LegacyPipelineEnter(w1, s, modelName, depth + 1)
    ELSE LegacyPipelineEnter(w, s, modelName, depth)

\* loadMediaPipeModel's catch block (lines 255-262) after a failed await.
LegacyMediaPipeCatch(w, s) ==
    LET f  == w.stack[s][1]
        w1 == [Report(w, s, 0, 0 - 1) EXCEPT !.useMediaPipe = FALSE,
                                            !.call[s].mpFailed = TRUE]
    IN  LegacyLoadModel(w1, s, "textgen", f.i)

\* A client calls loadModel(key, progressCallback).
LegacyStartLoadModel(s, key) ==
    /\ app = "LegacyModelManager"
    /\ stack[s] = <<>>
    /\ nCalls < MaxCalls
    /\ nCalls' = nCalls + 1
    /\ LET w0 == [World EXCEPT
                    !.call[s] = [IdleCall EXCEPT
                        !.status = "running", !.callNo = nCalls + 1, !.key = key,
                        !.startName = config[key].modelName,
                        !.startDev = config[key].device,
                        !.prior = models[key]],
                    !.progress[s] = NoProgress]
       IN  (\E after \in {LegacyLoadModel(w0, s, key, 0)} : Commit(after))
    /\ UNCHANGED <<app, reinit, bm, sw, em, pf, window, supportedDevices, supportedBackends,
                   currentBackend, isInitialized, initPc, infer>>

\* this.mediaPipeLLM.initialize() of line 215 settles: it can only succeed
\* where the MediaPipe library is there (mediapipe-llm.js 64-98).
LegacyInitializeSettles(s, ok) ==
    /\ app = "LegacyModelManager"
    /\ stack[s] # <<>> /\ stack[s][1].pc = "mpInit"
    /\ ok => window.LlmInference
    /\ (\E after \in {IF ok
              THEN [World EXCEPT !.mp.isInitialized = TRUE, !.mp.llmInference = TRUE,
                                 !.stack[s][1].pc = "mpLoad"]
              ELSE LegacyMediaPipeCatch(World, s)} : Commit(after))
    /\ UNCHANGED <<app, reinit, bm, sw, em, pf, window, supportedDevices, supportedBackends,
                   currentBackend, isInitialized, initPc, infer, nCalls>>

\* this.mediaPipeLLM.loadModel(mediaPipeModelId, ...) of line 222 settles: it
\* rejects for an identifier that is not in supportedModels
\* (mediapipe-llm.js 108-110).
LegacyModelLoadSettles(s, ok) ==
    /\ app = "LegacyModelManager"
    /\ stack[s] # <<>> /\ stack[s][1].pc = "mpLoad"
    /\ LET mediaPipeModelId == legacyMapToMediaPipeModel(stack[s][1].name) IN
       /\ ok => mediaPipeModelId \in supportedModels
       /\ (\E after \in {IF ok
                 THEN LET w1 == [World EXCEPT
                                   !.mp.currentModel = mediaPipeModelId,
                                   !.models["textgen"] =
                                       [present |-> TRUE, loaded |-> TRUE,
                                        backend |-> "mediapipe", device |-> "mediapipe",
                                        path |-> mediaPipeModelId, session |-> FALSE],
                                   !.useMediaPipe = TRUE,
                                   !.call[s].registered = TRUE]
                      IN  LegacySettle(Report(w1, s, 0, 100), s, TRUE, NoErr)
                 ELSE LegacyMediaPipeCatch(World, s)} : Commit(after))
    /\ UNCHANGED <<app, reinit, bm, sw, em, pf, window, supportedDevices, supportedBackends,
                   currentBackend, isInitialized, initPc, infer, nCalls>>

\* The pipeline() call of line 173 settles: lines 176-202.
LegacyPipelineSettles(s, ok) ==
    /\ app = "LegacyModelManager"
    /\ stack[s] # <<>> /\ stack[s][1].pc = "pipeline"
    /\ LET f == stack[s][1] IN
       (\E after \in {IF ok
              THEN LET w1 == [World EXCEPT
                                !.models[f.key] =
                                    [present |-> TRUE, loaded |-> TRUE, backend |-> "onnx",
                                     device |-> f.dev, path |-> f.path, session |-> FALSE],
                                !.call[s].registered = TRUE]
                   IN  LegacySettle(Report(w1, s, 0, 100), s, TRUE, NoErr)
              ELSE IF config[f.key].device = "webgpu"
              THEN LegacyLoadModel([World EXCEPT !.config[f.key].device = "wasm"],
                                   s, f.key, f.i)
              ELSE LegacySettle(Report(World, s, 0, 0 - 1), s, FALSE,
                                Err("LoadError", f.path))} : Commit(after))
    /\ UNCHANGED <<app, reinit, bm, sw, em, pf, window, supportedDevices, supportedBackends,
                   currentBackend, isInitialized, initPc, infer, nCalls>>

\* The manager after initialize() (lines 34-114) in a host with WebAssembly:
\* the devices are detected, the MediaPipeLLM instance is constructed where
\* its class is defined, and nothing has cleared useMediaPipe.
InitLegacy ==
    /\ app = "LegacyModelManager"
    /\ window \in {w \in Windows : w.WebAssembly}
    /\ \E adapter \in BOOLEAN :
          LET devices == IF window.WebAssembly THEN <<"wasm", "cpu">> ELSE <<"cpu">>
              ranked  == IF window.gpu /\ adapter THEN <<"webgpu">> \o devices ELSE devices
          IN  /\ supportedDevices = ranked
              /\ supportedBackends =
                     IF window.MediaPipeLLM THEN Append(ranked, "mediapipe") ELSE ranked
              /\ currentBackend = ranked[1]
              /\ config = [k \in Keys |->
                             IF k = "whisper"
                             THEN [modelName |-> WhisperTiny,
                                   task |-> "automatic-speech-recognition",
                                   device |-> ranked[1], dtype |-> "fp16"]
                             ELSE [modelName |-> window.selectedModel,
                                   task |-> "text-generation",
                                   device |-> ranked[1], dtype |-> "q4"]]
    /\ isInitialized = TRUE
    /\ initPc = "done"
    /\ models = [k \in Keys |-> NoHandle]
    /\ mediaPipeLLM = window.MediaPipeLLM
    /\ useMediaPipe = (window.selectedBackend = "mediapipe")
    /\ mp = FreshMediaPipe
    /\ tasks = {}
    /\ stack = [s \in OneCall |-> <<>>]
    /\ ret = [s \in OneCall |-> NoRet]
    /\ call = [s \in OneCall |-> IdleCall]
    /\ progress = [s \in OneCall |-> NoProgress]
    /\ infer = IdleInfer
    /\ sw = IdleSwitch
    /\ em = IdleEmitter
    /\ pf = IdlePrompt
    /\ reinit = IdleReinit
    /\ bm = IdleBench
    /\ nCalls = 0

\* The awaited backend calls.
LegacySettles ==
    \/ \E s \in Slots, ok \in BOOLEAN : LegacyInitializeSettles(s, ok)
    \/ \E s \in Slots, ok \in BOOLEAN : LegacyModelLoadSettles(s, ok)
    \/ \E s \in Slots, ok \in BOOLEAN : LegacyPipelineSettles(s, ok)

NextLegacy ==
    \/ \E s \in Slots, key \in Keys : LegacyStartLoadModel(s, key)
    \/ LegacySettles

\* Every backend call that is awaited settles: weak fairness of
\* LegacySettles, a step of which is possible exactly while a call is
\* waiting in a frame.
SpecLegacy ==
    /\ InitLegacy
    /\ [][NextLegacy]_vars
    /\ WF_vars(LegacySettles)

----------------------------------------------------------------------------
(* Backend routing, as functions of the identifier *)

InitRouting ==
    /\ StreamingManager(TinyLlama, FALSE)
    /\ isInitialized = TRUE
    /\ initPc = "done"
    /\ tasks = {}
    /\ stack = [s \in OneCall |-> <<>>]
    /\ ret = [s \in OneCall |-> NoRet]
    /\ call = [s \in OneCall |-> IdleCall]
    /\ progress = [s \in OneCall |-> NoProgress]
    /\ infer = IdleInfer
    /\ sw = IdleSwitch
    /\ em = IdleEmitter
    /\ pf \in RoutingInputs
    /\ reinit = IdleReinit
    /\ bm = IdleBench
    /\ nCalls = 1

NextRouting ==
    \/ ShouldUseMediaPipe
    \/ MapToMediaPipeModel

SpecRouting == InitRouting /\ [][NextRouting]_vars

----------------------------------------------------------------------------
(* Prompt formatting and response extraction, as functions of their inputs *)

InitPrompt ==
    /\ StreamingManager(TinyLlama, FALSE)
    /\ isInitialized = TRUE
    /\ initPc = "done"
    /\ tasks = {}
    /\ stack = [s \in OneCall |-> <<>>]
    /\ ret = [s \in OneCall |-> NoRet]
    /\ call = [s \in OneCall |-> IdleCall]
    /\ progress = [s \in OneCall |-> NoProgress]
    /\ infer = Running("textgen", FALSE, 1)
    /\ sw = IdleSwitch
    /\ em = IdleEmitter
    /\ pf \in PromptInputs
    /\ reinit = IdleReinit
    /\ bm = IdleBench
    /\ nCalls = 2

NextPrompt ==
    \/ FormatPrompt
    \/ ExtractResponse

SpecPrompt == InitPrompt /\ [][NextPrompt]_vars

----------------------------------------------------------------------------
(* Properties of the fallback cascade *)

\* The identifiers of a list of cascade attempts, in order.
AttemptIds(a) == [i \in 1..Len(a) |-> a[i].id]

\* The plan loadMediaPipeModel walks for the identifier the call started with.
PlanOf(s) ==
    IF call[s].startName \in ModelIds THEN getFallbackONNXModel(call[s].startName)
                                      ELSE NoFallback

\* C1: for a plan of three candidates [A, B, C] and the emergency identifier
\* E, once the loads of A and B have failed and the load of C has succeeded,
\* the fallbacks submitted to loadModel are exactly A, B, C in that order, all
\* taken from the plan, and E is never submitted.
C1_CascadeStopsAtFirstSuccess ==
    \A s \in Slots :
        LET a == call[s].attempts IN
        (/\ Len(PlanOf(s)) = 3
         /\ Len(a) >= 3
         /\ a[1].res = "failed" /\ a[2].res = "failed" /\ a[3].res = "ok")
        => /\ AttemptIds(a) = PlanOf(s)
           /\ \A i \in 1..Len(a) : a[i].slot = "plan"

C1_Witness ==
    \E s \in Slots :
        LET a == call[s].attempts IN
        /\ call[s].status = "resolved"
        /\ Len(PlanOf(s)) = 3
        /\ Len(a) = 3
        /\ a[1].res = "failed" /\ a[2].res = "failed" /\ a[3].res = "ok"

\* The cascade of the call in slot s is exhausted: loadModel has rejected with
\* the error of line 359.
Exhausted(s) ==
    /\ call[s].status = "rejected"
    /\ call[s].err.kind = "AllFallbacksFailed"

C3_RejectsOnlyAfterFullCascade ==
    \A s \in Slots :
        (call[s].status = "rejected" /\ call[s].key = "textgen" /\ call[s].mpFailed)
        => LET a == call[s].attempts IN
           /\ Len(a) >= 2
           /\ a[Len(a)].id = emergencyFallback
           /\ a[Len(a)].slot = "emergency"
           /\ \A i \in 1..Len(a) : a[i].res = "failed"

\* C5: when the cascade is exhausted, config.textgen.modelName at the moment
\* loadModel rejects is the identifier it held when the call started.
C5_IdentifierRestored ==
    \A s \in Slots :
        Exhausted(s) => config["textgen"].modelName = call[s].startName

C5_Witness ==
    \E s \in Slots :
        /\ Exhausted(s)
        /\ call[s].startName = Gemma7
        /\ Len(call[s].attempts) = 2
        /\ config["textgen"].modelName = Gemma7

----------------------------------------------------------------------------
(* Properties of the timeout races *)

\* The real operation of a race that its timer has already won settles.
LateCompletion ==
    \E t \in tasks : t.waiter = "none" /\ tasks' = tasks \ {t}

\* C4 (as stated): the result of a MediaPipe initialisation or model load that
\* arrives after its timeout has fired is discarded: it changes none of the
\* MediaPipeLLM fields isInitialized, llmInference and currentModel, nor the
\* handle registry, nor the per-model config.
C4_LateCompletionDiscarded ==
    [][LateCompletion => (mp' = mp /\ models' = models /\ config' = config)]_vars

----------------------------------------------------------------------------
(* Properties of loadModel *)

\* C6: a load that fails with the configured device 'webgpu' is retried once,
\* with the same identifier, on the downgraded device; a call that rejects has
\* made exactly those two backend loads, and exactly one when the configured
\* device was not 'webgpu'.  (Calls that went through the MediaPipe path are
\* covered by the condition on the frames: a retrying loadModel has one
\* loadModel above it, which is not itself retrying.)
C6_RetryOnceOnDowngrade ==
    \A s \in Slots :
        LET c == call[s] IN
        /\ (c.status = "rejected" /\ c.key \in Keys /\ ~c.mpFailed) =>
               IF c.startDev = "webgpu"
               THEN /\ Len(c.loads) = 2
                    /\ c.loads[2].id = c.loads[1].id
                    /\ c.loads[2].dev = "wasm"
                    /\ config[c.key].device = "wasm"
               ELSE Len(c.loads) = 1
        /\ \A i \in 1..Len(stack[s]) :
               stack[s][i].pc = "retry" =>
                   \/ i = Len(stack[s]) /\ ret[s].set
                   \/ /\ i + 1 = Len(stack[s])
                      /\ stack[s][i + 1].fn = "loadModel"
                      /\ stack[s][i + 1].pc = "pipeline"
                      /\ stack[s][i + 1].dev # "webgpu"

C6_Witness ==
    \E s \in Slots :
        /\ call[s].status = "rejected"
        /\ call[s].key = "whisper"
        /\ call[s].startDev = "webgpu"
        /\ Len(call[s].loads) = 2
        /\ call[s].err.kind = "LoadError"

\* C7 (as stated): once a replacement load for a key has started, the handle
\* registered before for that key is no longer ready.
C7_PreviousInvalidatedFirst ==
    \A s \in Slots :
        (call[s].status = "running" /\ call[s].prior.loaded /\ ~call[s].registered)
        => ~models[call[s].key].loaded

\* C7 (amended): the registry holds one entry per key, and a replacement load
\* leaves the handle registered before untouched and ready until it succeeds:
\* while it runs, and after it has failed, the registry still holds the
\* previous handle; once it has registered, the registry holds a loaded handle.
C7_PreviousKeptUntilReplaced ==
    \A s \in Slots :
        LET c == call[s] IN
        (c.status # "idle" /\ c.key \in DOMAIN models) =>
            /\ ~c.registered => models[c.key] = c.prior
            /\ c.registered => models[c.key].present /\ models[c.key].loaded

C7_Witness ==
    \E s \in Slots :
        /\ call[s].status = "rejected"
        /\ call[s].key = "textgen"
        /\ call[s].prior.loaded
        /\ models["textgen"] = call[s].prior

\* C8 (as stated): for every key passed to loadModel, a call that resolves
\* leaves a loaded handle for the key in the registry, and a call that rejects
\* has registered no handle.
C8_ResolvedMeansLoaded ==
    \A s \in Slots :
        /\ call[s].status = "resolved" =>
               /\ call[s].key \in DOMAIN models
               /\ models[call[s].key].present
               /\ models[call[s].key].loaded
        /\ call[s].status = "rejected" => ~call[s].registered

\* C9 (as stated): ModelManager.loadModel with a key that has no configuration
\* rejects with a configuration error naming the key, makes no backend load,
\* and leaves the registry and the configuration as they were.
C9_UnknownKeyRejected ==
    \A s \in Slots :
        (app = "ModelManager" /\ call[s].status # "idle" /\ call[s].key \notin Keys) =>
            /\ call[s].status = "rejected"
            /\ call[s].err.kind = "ConfigurationError"
            /\ call[s].err.about = call[s].key
            /\ call[s].loads = <<>>
            /\ ~call[s].registered

----------------------------------------------------------------------------
(* Properties of the inference operations *)

\* C10: runWhisperInference or runTextGeneration called while the registry has
\* no loaded handle for its key rejects with the not-loaded error, having made
\* no backend call and delivered no stream event.
C10_NotLoadedRejectsFirst ==
    (infer.op # "none" /\ ~(models[infer.op].present /\ models[infer.op].loaded)) =>
        /\ infer.status = "rejected"
        /\ infer.err = "NotLoaded"
        /\ infer.invoked = 0
        /\ infer.events = <<>>

C10_Witness ==
    /\ infer.op = "textgen"
    /\ infer.stream
    /\ infer.status = "rejected"
    /\ infer.err = "NotLoaded"
    /\ models["whisper"].loaded

\* C11 (as stated): when the backend call of a text-generation request fails,
\* the request rejects with that failure, on every backend: the backend is
\* not called again and the request does not resolve with a substitute text.
C11_GenerationFailureSurfaces ==
    (infer.op = "textgen" /\ infer.failed) =>
        /\ infer.status = "rejected"
        /\ infer.err = "GenerationError"
        /\ ~infer.substitute
        /\ infer.invoked = 1

----------------------------------------------------------------------------
(* Properties of switchBackend *)

\* C12 (as stated): when switchBackend(b) with a supported backend b has
\* completed, the registry holds no loaded handle.
C12_SwitchUnloadsEveryHandle ==
    [][(sw'.callNo # sw.callNo /\ sw'.status = "resolved") =>
           \A k \in DOMAIN models' : ~models'[k].loaded]_vars

\* C13: switchBackend with a name that is not in supportedBackends throws, and
\* leaves currentBackend and every registered handle as they were.
C13_UnsupportedBackendChangesNothing ==
    [][\A b \in BackendNames :
          (SwitchBackend(b) /\ ~Supports(supportedBackends, b)) =>
              /\ sw'.status = "rejected"
              /\ currentBackend' = currentBackend
              /\ models' = models]_vars

C13_Witness ==
    /\ app = "ModelManager"
    /\ sw.status = "rejected"
    /\ ~Supports(supportedBackends, sw.newBackend)
    /\ \E k \in DOMAIN models : models[k].loaded

----------------------------------------------------------------------------
(* Properties of the stream emitters *)

WordEmitters == {"onnx", "mediapipe", "mediapipeQ4"}

Settled(e) == e.pc \in {"resolved", "rejected"}

\* What the client sees of an event: its type and its text.
TypeAndText(events) == [i \in 1..Len(events) |-> <<events[i].type, events[i].text>>]

IsPrefix(a, b) == Len(a) <= Len(b) /\ SubSeq(b, 1, Len(a)) = a

HelloEvents ==
    << <<"word", <<"H","e","l","l","o">> >>,
       <<"sentence", <<"H","e","l","l","o"," ","t","h","e","r","e",".">> >>,
       <<"word", <<"H","o","w">> >>,
       <<"word", <<"a","r","e">> >>,
       <<"sentence", <<"H","o","w"," ","a","r","e"," ","y","o","u","?">> >>,
       <<"complete", HelloText>> >>

\* C14: given "Hello there. How are you?", the word emitters deliver
\* word("Hello"), sentence("Hello there."), word("How"), word("are"),
\* sentence("How are you?"), complete("Hello there. How are you?"), in this
\* order and nothing else.
C14_HelloEvents ==
    (em.emitter \in WordEmitters /\ em.text = HelloText /\ em.pc # "waiting") =>
        /\ IsPrefix(TypeAndText(em.events), HelloEvents)
        /\ em.pc = "resolved" => TypeAndText(em.events) = HelloEvents

C14_Witness ==
    /\ em.emitter = "onnx"
    /\ em.text = HelloText
    /\ em.pc = "resolved"
    /\ Len(em.events) = 6

C14_WitnessMediaPipe ==
    /\ em.emitter = "mediapipe"
    /\ em.text = HelloText
    /\ em.pc = "resolved"
    /\ Len(em.events) = 6

Completes(e) == {i \in 1..Len(e.events) : e.events[i].type = "complete"}

\* C15 (as stated): a streaming generation whose backend call succeeded
\* delivers exactly one 'complete' event; it is the last event, the only one
\* with isComplete = true, and every event before it has isComplete = false.
C15_ExactlyOneCompleteLast ==
    /\ \A i \in 1..Len(em.events) :
           /\ em.events[i].isComplete <=> em.events[i].type = "complete"
           /\ em.events[i].type = "complete" => i = Len(em.events)
    /\ Settled(em) => Completes(em) = {Len(em.events)} /\ em.events # <<>>

\* C16 (as stated): on every backend's emitter, the text of the 'complete'
\* event is the full response text and is the string the generation call
\* resolves with.
C16_CompleteCarriesResolvedText ==
    (em.pc = "resolved" /\ Completes(em) # {}) =>
        \A i \in Completes(em) :
            /\ em.events[i].text = trim(em.raw)
            /\ em.events[i].text = em.result

\* The event of word k of the response: a 'word' event with that word, or
\* the 'sentence' event of the sentence the word ends.
EventOfWord(ev, word) ==
    IF EndsSentence(word)
    THEN /\ ev.type = "sentence"
         /\ Len(ev.text) >= Len(word)
         /\ SubSeq(ev.text, Len(ev.text) - Len(word) + 1, Len(ev.text)) = word
    ELSE ev.type = "word" /\ ev.text = word

\* C17: each word of the response gives rise to exactly one event, in word
\* order (after them come only the closing sentence event, if any, and the
\* completion event), and an event is delivered only when the callback of
\* the event before it has settled.
C17_OneEventPerWordInOrder ==
    (em.emitter \in WordEmitters /\ em.pc # "waiting") =>
        LET words == split(trim(em.raw)) IN
        /\ \A k \in 1..Len(em.events) : k <= Len(words) => EventOfWord(em.events[k], words[k])
        /\ Len(em.events) <= Len(words) + 2
        /\ \A k \in 1..Len(em.events) :
               k > Len(words) => em.events[k].type \in {"sentence", "complete"}
        /\ em.pc = "resolved" => Len(em.events) > Len(words)
        /\ em.pc = "delay" => Len(em.events) = em.i
        /\ Len(em.events) = em.settled + (IF em.pc = "callback" THEN 1 ELSE 0)

C17_Witness ==
    /\ em.emitter = "mediapipe"
    /\ em.pc = "resolved"
    /\ Len(split(trim(em.raw))) = 3
    /\ em.settled = 5

\* Two emitter states that differ in nothing but the pacing: the timer
\* awaited and the emitter's name.
SameButPacing(e1, e2) ==
    [e1 EXCEPT !.timer = 0, !.emitter = ""] = [e2 EXCEPT !.timer = 0, !.emitter = ""]

\* C18: the ONNX emitter and the MediaPipe emitter, with or without Q4
\* pacing, take the same steps on the same text, so they deliver the same
\* events; and an emission of a text delivers the events the emission of the
\* same text before it delivered.
C18_PacingDoesNotChangeEvents ==
    (em.emitter \in WordEmitters \/ (em.pc = "waiting" /\ Emitter \in WordEmitters)) =>
        /\ em.pc = "waiting" =>
               \A raw \in {em.raw, HelloText} :
                   SameButPacing(OnnxStart(em, raw), MediaPipeStart(em, raw))
        /\ em.pc = "callback" =>
               /\ SameButPacing(OnnxCallbackResolved(em), MediaPipeCallbackResolved(em))
               /\ SameButPacing(MediaPipeCallbackResolved([em EXCEPT !.emitter = "mediapipe"]),
                                MediaPipeCallbackResolved([em EXCEPT !.emitter = "mediapipeQ4"]))
        /\ em.pc = "delay" =>
               /\ SameButPacing(OnnxDelayElapsed(em), MediaPipeDelayElapsed(em))
               /\ SameButPacing(MediaPipeDelayElapsed([em EXCEPT !.emitter = "mediapipe"]),
                                MediaPipeDelayElapsed([em EXCEPT !.emitter = "mediapipeQ4"]))
        /\ (em.prev # <<>> /\ em.pc # "waiting") => IsPrefix(em.events, em.prev[1])
        /\ (em.prev # <<>> /\ em.pc = "resolved") => em.events = em.prev[1]

C18_Witness ==
    /\ em.emitter = "mediapipeQ4"
    /\ em.n = 2
    /\ em.pc = "resolved"
    /\ em.prev = <<em.events>>
    /\ Len(em.events) >= 4

RECURSIVE JoinWithSpaces(_)
JoinWithSpaces(texts) ==
    IF texts = <<>> THEN <<>>
    ELSE IF Len(texts) = 1 THEN texts[1]
    ELSE texts[1] \o <<" ">> \o JoinWithSpaces(Tail(texts))

IsSpace(c) == c = " "
NotSpace(c) == c # " "
NotComplete(ev) == ev.type # "complete"
IsSentence(ev) == ev.type = "sentence"

Texts(events) == [i \in 1..Len(events) |-> events[i].text]

RECURSIVE CollapseAfterTerminator(_)
CollapseAfterTerminator(cs) ==
    IF Len(cs) < 3 THEN cs
    ELSE IF cs[1] \in Terminators /\ cs[2] = " " /\ cs[3] = " "
    THEN CollapseAfterTerminator(<<cs[1]>> \o SubSeq(cs, 3, Len(cs)))
    ELSE <<cs[1]>> \o CollapseAfterTerminator(Tail(cs))

----------------------------------------------------------------------------
(* Properties of prompt formatting and response extraction *)

\* The text holds none of the strings the family's extraction looks for.
Clean(modelName, text) == \A cut \in CutStrings(FamilyOf(modelName)) : ~includes(text, cut)

\* C20 (as stated): for a prompt without the family's delimiters, extracting
\* from the formatted prompt gives the prompt back, surrounding whitespace
\* apart.
C20_ExtractReturnsPrompt ==
    (pf.pc = "extracted" /\ Clean(pf.modelName, pf.prompt)) => pf.ofPrompt = trim(pf.prompt)

\* C20 (amended): for a prompt and a continuation without the strings the
\* family's extraction looks for, extracting from the formatted prompt
\* followed by the continuation gives the continuation, surrounding
\* whitespace apart; extracting from the formatted prompt alone gives the
\* empty string.
C20_ExtractReturnsContinuation ==
    (pf.pc = "extracted" /\ Clean(pf.modelName, pf.prompt)) =>
        /\ pf.ofPrompt = <<>>
        /\ Clean(pf.modelName, pf.response) => pf.ofOutput = trim(pf.response)

C20_Witness ==
    /\ pf.pc = "extracted"
    /\ FamilyOf(pf.modelName) = "smollm2"
    /\ Clean(pf.modelName, pf.prompt)
    /\ Clean(pf.modelName, pf.response)
    /\ pf.prompt = <<"a">>
    /\ pf.response = <<"system", "\n">>
    /\ pf.ofOutput = <<"system">>


----------------------------------------------------------------------------
(* Properties of the capability probe *)

Occurrences(seq, x) == Cardinality({i \in DOMAIN seq : seq[i] = x})

\* detectSupportedDevices has run to its end.
Probed == app = "ModelManager" /\ initPc \in {"mpRace", "done"}

\* C21: once detectSupportedDevices has completed, the ranked device list
\* holds 'cpu' exactly once, as its last element, in every environment.
C21_CpuOnceAndLast ==
    Probed =>
        /\ supportedDevices # <<>>
        /\ supportedDevices[Len(supportedDevices)] = "cpu"
        /\ Occurrences(supportedDevices, "cpu") = 1

C21_Witness ==
    /\ Probed
    /\ window.gpu
    /\ supportedDevices = <<"webgpu", "wasm", "cpu">>

\* C22: the probe always completes; 'webgpu' is in the ranked list, as its
\* first element, exactly when requestAdapter yielded an adapter, and is absent
\* when there is no navigator.gpu, no adapter, or a rejected request.
C22_ProbeNeverFails ==
    [][/\ \A outcome \in {"adapter", "null", "reject"} :
            AdapterSettles(outcome) =>
                /\ initPc' \in {"mpRace", "done"}
                /\ outcome = "adapter" => supportedDevices'[1] = "webgpu"
                /\ outcome # "adapter" => Occurrences(supportedDevices', "webgpu") = 0
       /\ (Initialize /\ ~window.gpu) =>
                /\ initPc' \in {"mpRace", "done"}
                /\ Occurrences(supportedDevices', "webgpu") = 0]_vars

C22_Witness ==
    /\ Probed
    /\ window.gpu
    /\ supportedDevices = <<"wasm", "cpu">>
    /\ currentBackend = "wasm"



----------------------------------------------------------------------------
(* Properties of a repeated initialize() *)

\* C23 (as stated): a second initialize(), called after the first completed,
\* leaves the ranked device list, every model's configuration, currentBackend,
\* the MediaPipe instance and the handle registry as they were before the call.
C23_InitializeIdempotent ==
    (/\ reinit.n >= 1
     /\ initPc = "done"
     /\ sw.callNo = reinit.switches
     /\ nCalls = reinit.calls) => Observed = reinit.before



----------------------------------------------------------------------------
(* Properties of the backend routing *)

UpperChar(c) ==
    CASE c = "a" -> "A" [] c = "b" -> "B" [] c = "e" -> "E" [] c = "g" -> "G"
      [] c = "m" -> "M" [] c = "n" -> "N" [] c = "o" -> "O" [] c = "v" -> "V"
      [] c = "x" -> "X" [] OTHER -> c

\* The lower-case word occurs in cs, in any mix of upper and lower case.
ContainsIgnoringCase(cs, word) ==
    \E i \in 1..Len(cs) :
        /\ i + Len(word) - 1 <= Len(cs)
        /\ \A j \in 1..Len(word) : cs[i + j - 1] \in {word[j], UpperChar(word[j])}

C25_MapsToPlainGemma ==
    pf.pc = "mapped" =>
        pf.mapped = IF ContainsIgnoringCase(pf.id, <<"g","e","m","m","a","-","7","b">>)
                    THEN "gemma-7b-it" ELSE "gemma-3-1b-it"



----------------------------------------------------------------------------
(* Properties of benchmarkModel *)

RECURSIVE Sequential(_)
Sequential(n) ==
    IF n = 0 THEN <<>>
    ELSE Sequential(n - 1) \o << <<"start", n - 1>>, <<"settle", n - 1>> >>

\* C27 (as stated): a benchmark of n iterations on a loaded handle calls the
\* key's inference method exactly n times, each call after the one before has
\* settled, for speech-to-text and text-generation alike.
C27_OneInferencePerIteration ==
    bm.pc = "resolved" =>
        /\ bm.invoked = bm.iterations
        /\ bm.log = Sequential(bm.iterations)



----------------------------------------------------------------------------
(* Properties of the progress reports and the devices of loadModel *)

\* C28 (as stated): once a loadModel call has rejected, the last value its
\* progress callback received is -1.
C28_FailureReportedLast ==
    \A s \in Slots :
        (app = "ModelManager" /\ call[s].status = "rejected") =>
            progress[s] = ProgressThrough(0, 0 - 1)



\* C29: no pipeline load of a SmolLM2 identifier is issued on 'webgpu', and
\* no registered handle of a SmolLM2 identifier has device 'webgpu'.
C29_SmolLM2NeverOnWebGPU ==
    /\ \A s \in Slots : \A i \in 1..Len(call[s].loads) :
           IsSmolLM2(call[s].loads[i].id) => call[s].loads[i].dev # "webgpu"
    /\ \A k \in DOMAIN models :
           (app = "ModelManager" /\ models[k].present /\ models[k].backend = "onnx"
              /\ IsSmolLM2(models[k].path)) => models[k].device # "webgpu"

\* A SmolLM2 fallback was loaded and registered where WebGPU ranks first.
C29_Witness ==
    /\ app = "ModelManager"
    /\ Len(supportedDevices) > 0 /\ supportedDevices[1] = "webgpu"
    /\ models["textgen"].present /\ models["textgen"].backend = "onnx"
    /\ IsSmolLM2(models["textgen"].path)
    /\ \E s \in Slots : \E i \in 1..Len(call[s].loads) :
           IsSmolLM2(call[s].loads[i].id)



\* C30 (as stated): every pipeline load, the retry after a failure on WebGPU
\* included, is issued on a device of the ranked list supportedDevices.
C30_LoadsOnSupportedDevices ==
    \A s \in Slots : \A i \in 1..Len(call[s].loads) :
        app = "ModelManager" =>
            \E j \in 1..Len(supportedDevices) :
                supportedDevices[j] = call[s].loads[i].dev



----------------------------------------------------------------------------
(* Properties of the cascade, the configuration and the readers *)

\* The pipeline() calls of the call in slot s that have not settled.
PipelinesInFlight(s) ==
    {i \in 1..Len(stack[s]) : stack[s][i].fn = "loadModel" /\ stack[s][i].pc = "pipeline"}

\* C31: within one cascade at most one fallback load is in flight: every
\* fallback submitted before the latest one has rejected (so none follows a
\* success), and at most one pipeline() call of the cascade is unsettled.
C31_OneFallbackAtATime ==
    \A s \in Slots :
        LET a == call[s].attempts IN
        /\ \A i \in 1..(Len(a) - 1) : a[i].res = "failed"
        /\ Cardinality(PipelinesInFlight(s)) <= 1
        /\ (Len(a) > 0 /\ a[Len(a)].res # "pending") => PipelinesInFlight(s) = {}

\* The second candidate of a plan is being loaded after the first has failed.
C31_Witness ==
    \E s \in Slots :
        LET a == call[s].attempts IN
        /\ Len(a) = 2
        /\ a[1].res = "failed" /\ a[2].res = "pending"
        /\ a[2].slot = "plan"
        /\ Cardinality(PipelinesInFlight(s)) = 1



\* C32 (as stated): once initialize() has returned, no step changes the task,
\* the device or the dtype of a model's configuration.
C32_OnlyIdentifierChanges ==
    [][(app = "ModelManager" /\ initPc = "done" /\ initPc' = "done") =>
          \A k \in Keys : /\ config'[k].task = config[k].task
                          /\ config'[k].device = config[k].device
                          /\ config'[k].dtype = config[k].dtype]_vars



\* A step of one of the reading operations: each of them records what it did
\* in the request it belongs to (infer, bm) or in the value it returned (pf).
ReaderStep == infer' # infer \/ bm' # bm \/ pf' # pf

\* C33: the inference methods, benchmarkModel and the status readers leave
\* the handle registry, the configuration, currentBackend and useMediaPipe
\* as they were, whether they succeed or fail.
C33_ReadersWriteNothing ==
    [][ReaderStep => /\ models' = models
                     /\ config' = config
                     /\ currentBackend' = currentBackend
                     /\ useMediaPipe' = useMediaPipe]_vars

\* An inference and a benchmark have failed and a status was read.
C33_Witness ==
    /\ infer.status = "rejected" /\ infer.failed
    /\ bm.pc = "resolved" /\ bm.failed > 0
    /\ pf.pc = "allStatus"



\* C34 (as stated): for every identifier, shouldUseMediaPipe answers in every
\* state what it answers for the backend the user selected.
C34_RoutingIsAFunctionOfItsInputs ==
    app = "ModelManager" =>
        \A id \in ModelIds :
            shouldUseMediaPipe(id, useMediaPipe)
                = shouldUseMediaPipe(id, window.selectedBackend = "mediapipe")



\* C35 (as stated): every loadModel call that was started settles.
C35_EveryLoadSettles ==
    \A s \in OneCall : (call[s].status = "running") ~> (call[s].status # "running")



\* No loadModel call is pending.
AllSettled == \A s \in Slots : stack[s] = <<>> /\ ~ret[s].set

\* C36 (as stated): once every loadModel('textgen') call has settled, an ONNX
\* handle registered for 'textgen' was loaded from the identifier that
\* config.textgen.modelName holds.
C36_ConfigNamesTheLoadedModel ==
    (/\ app = "ModelManager"
     /\ AllSettled
     /\ models["textgen"].present
     /\ models["textgen"].backend = "onnx")
    => ModelPath(config["textgen"].modelName) = models["textgen"].path



\* C37 (as stated): the identifiers one cascade submits to loadModel, the
\* emergency identifier included, are pairwise distinct.
C37_NoIdentifierTwice ==
    \A s \in Slots :
        LET a == call[s].attempts IN
        \A i, j \in 1..Len(a) : a[i].id = a[j].id => i = j


----------------------------------------------------------------------------
(* Properties of cleanup *)

\* C38: in every reachable state of MediaPipeLLM, under any interleaving of
\* initialize, loadModel and cleanup, a current model that is not null
\* implies that the instance is initialised and holds an inference object.
C38_CurrentModelImpliesReady ==
    mp.currentModel # "null" => mp.isInitialized /\ mp.llmInference

\* C39: after ModelManager.cleanup() returns the registry is empty:
\* getModelStatus(key).loaded is false for every logical key.
C39_CleanupEmptiesRegistry ==
    [][Cleanup => \A key \in Keys : ~(getModelStatus(key).loaded)']_vars

----------------------------------------------------------------------------
(* Properties of the word-pacing emitters *)

\* C40: every 'word' and 'sentence' event that runStreamingGeneration and
\* generateStreamingText deliver carries a text that is not empty, whatever
\* the response text is, the empty text and texts with consecutive spaces
\* included.
C40_EventsCarryText ==
    em.emitter \in {"onnx", "mediapipe", "mediapipeQ4"} =>
        \A i \in 1..Len(em.events) :
            em.events[i].type \in {"word", "sentence"} => em.events[i].text # <<>>

=============================================================================
